---- MODULE Spec2Model ----
(***************************************************************************)
(* Application and document verification workflow of the admissions CRM    *)
(* (src/app.py), over the tables applications, documents, students,       *)
(* audit_logs and notifications.  Every handler talks to one shared       *)
(* psycopg connection (src/database.py): execute_query(fetch=False)       *)
(* commits after its statement, execute_one and execute_query(fetch=True) *)
(* do not commit, and a failing statement rolls back only what is not yet *)
(* committed.                                                             *)
(***************************************************************************)
EXTENDS Integers, Sequences, FiniteSets, Bags, TLC

\* ------------------------------------------------------------------ bounds
MaxLedger == 2
MaxNotifications == 6
MaxDocs == 6
MaxApps == 2
MaxFiles == 1

\* ------------------------------------------------------- program constants
NULL == 0

SuperAdmin == 1
Admin == 2
Counsellor == 3
UniversityStaff == 4
LogisticsStaff == 5
Student == 6

BlockSize == 16

required_docs == {"Passport", "Transcript", "English Test", "Personal Photo"}

DocTypes == required_docs \cup {"Other"}

DecisionTypes == {"Accepted", "Rejected", "Conditional", "Missing Documents"}

\* ------------------------------------------------------------ the actors
\* users table: user_id -> role_id.  Two counsellors, two university staff
\* members (one per university), two students, one of every other role.
users == <<SuperAdmin, Admin, Counsellor, Counsellor, UniversityStaff,
           UniversityStaff, LogisticsStaff, Student, Student>>

UserIds == DOMAIN users

role_id(u) == users[u]

\* universities table: university_id -> portal_user_id (the bound staff user).
universities == <<[portal_user_id |-> 5], [portal_user_id |-> 6]>>

UniversityIds == DOMAIN universities

StudentIds == {1, 2}

AppIds == 1..MaxApps

DocIds == 1..MaxDocs

VARIABLES
  apps,           \* applications rows: application_id -> row
  docs,           \* documents rows: document_id -> row
  students,       \* students rows: student_id -> row
  ledger,         \* audit_logs rows (a bag: the table has no order but its serial id)
  notifications,  \* notifications rows (a bag)
  nextAppId,      \* applications.application_id serial
  nextDocId,      \* documents.document_id serial
  resp,           \* the last HTTP response
  faults,         \* storage failures injected so far
  threads,        \* requests in flight, statement by statement (concurrent runs)
  accounts,       \* users rows: user_id -> row
  portal_users,   \* universities rows: university_id -> portal_user_id
  nextUserId,     \* users.user_id serial
  tokens,         \* the bearer tokens issued so far (their payloads)
  sockets,        \* Socket.IO connections: sid -> state and rooms joined
  connected_users,\* app.py's connected_users: user_id -> sid
  file_data,      \* the bytes handed to the vault
  stored,         \* what encrypt_document returned, call by call
  decrypted       \* what decrypt_document returned last

vars == <<apps, docs, students, ledger, notifications, nextAppId, nextDocId,
          resp, faults, threads, accounts, portal_users, nextUserId,
          tokens, sockets, connected_users, file_data, stored, decrypted>>

db == <<apps, docs, students, ledger, notifications, nextAppId, nextDocId>>

\* the tables of the user and university administration routes
admin == <<accounts, portal_users, nextUserId>>

\* the state outside the tables: tokens, chat connections and the vault's
\* inputs and outputs
service == <<tokens, sockets, connected_users, file_data, stored, decrypted>>

\* ------------------------------------------------------------ db helpers
Rows(application_id) ==
  {d \in DOMAIN docs : docs[d].application_id = application_id}

\* SELECT university_id FROM universities WHERE portal_user_id = u (fetchone)
university_of(u) ==
  IF \E v \in DOMAIN portal_users : portal_users[v] = u
  THEN CHOOSE v \in DOMAIN portal_users : portal_users[v] = u
  ELSE NULL

\* (mutant) the audit row is never written
audit_lost(log, u, action, target_table, target_id) == log

\* (mutant) the row replaces the rows already written about the same target
audit_latest_only(log, u, action, target_table, target_id) ==
  LET kept == {e \in BagToSet(log) :
                 e.target_table # target_table \/ e.target_id # target_id}
  IN [e \in kept |-> log[e]]
     (+) SetToBag({[action |-> action, target_table |-> target_table,
                    target_id |-> target_id]})

\* INSERT INTO audit_logs (user_id, action, target_table, target_id, ...):
\* the row's action and target (the acting user, address, details and
\* timestamp columns are not kept).
audit(log, u, action, target_table, target_id) ==
  log (+) SetToBag({[action |-> action, target_table |-> target_table,
                     target_id |-> target_id]})

\* INSERT INTO notifications (user_id, title, message, triggered_by): the
\* row's recipient and title.
notify(box, to, title, u) ==
  box (+) SetToBag({[user_id |-> to, title |-> title]})

\* The response: the handler, the status code and, of a refused request,
\* the role it came from and the row it named.
respond(op, code, u, target) ==
  resp' = [op |-> op, code |-> code,
           role |-> IF code \in {400, 403, 404} THEN role_id(u) ELSE NULL,
           target |-> IF code \in {400, 403, 404} THEN target ELSE NULL]

\* The model stops taking requests once the tables are as large as the
\* bounds, and follows a run up to its first refused request: a refused
\* request changes nothing but the response, so every state that follows it
\* is also reached without it.
Refused == resp.code \in {400, 403, 404}

Budget ==
  /\ ~Refused
  /\ BagCardinality(ledger) + faults < MaxLedger
  /\ BagCardinality(notifications) < MaxNotifications

\* ------------------------------------------------------- EncryptionVault
\* The block cipher under the master key, abstracted to a keyed permutation
\* of byte values; the mode of operation (CBC over padded blocks, a fresh IV
\* per call) is the code's.
master_key == 91

cipher_block(b) == (b + master_key) % 256

inv_cipher_block(b) == (b + 256 - master_key) % 256

\* (mutant) a payload that already fills its blocks gets no padding
pad_unless_aligned(data) ==
  IF Len(data) % BlockSize = 0 THEN data
  ELSE LET n == BlockSize - (Len(data) % BlockSize)
       IN  data \o [i \in 1..n |-> n]

\* Crypto.Util.Padding.pad: PKCS#7, always at least one byte of padding.
pad(data) ==
  LET n == BlockSize - (Len(data) % BlockSize)
  IN  data \o [i \in 1..n |-> n]

unpad(data) ==
  IF Len(data) = 0 THEN <<>> ELSE SubSeq(data, 1, Len(data) - data[Len(data)])

\* CBC: byte i is chained with byte i of the previous cipher block (the IV
\* for the first block).
RECURSIVE cbc_encrypt(_, _, _)
cbc_encrypt(plain, iv, done) ==
  IF Len(done) = Len(plain) THEN done
  ELSE LET i == Len(done) + 1
           prev == IF i <= BlockSize THEN iv[i] ELSE done[i - BlockSize]
       IN  cbc_encrypt(plain, iv,
                       Append(done, cipher_block((plain[i] + prev) % 256)))

\* base64: three bytes make four digits 0..63; B64Pad is the character "=".
B64Pad == 64

RECURSIVE b64encode(_)
b64encode(data) ==
  IF Len(data) = 0 THEN <<>>
  ELSE LET b2 == IF Len(data) >= 2 THEN data[2] ELSE 0
           b3 == IF Len(data) >= 3 THEN data[3] ELSE 0
           n == data[1] * 65536 + b2 * 256 + b3
       IN  <<n \div 262144, (n \div 4096) % 64,
             IF Len(data) >= 2 THEN (n \div 64) % 64 ELSE B64Pad,
             IF Len(data) >= 3 THEN n % 64 ELSE B64Pad>>
           \o b64encode(SubSeq(data, 4, Len(data)))

RECURSIVE b64decode(_)
b64decode(text) ==
  IF Len(text) < 4 THEN <<>>
  ELSE LET digit(i) == IF text[i] = B64Pad THEN 0 ELSE text[i]
           n == digit(1) * 262144 + digit(2) * 4096 + digit(3) * 64 + digit(4)
           keep == IF text[3] = B64Pad THEN 1
                   ELSE IF text[4] = B64Pad THEN 2 ELSE 3
       IN  SubSeq(<<n \div 65536, (n \div 256) % 256, n % 256>>, 1, keep)
           \o b64decode(SubSeq(text, 5, Len(text)))

\* returns the base64 strings of the cipher text and of the IV
encrypt_document(data, iv) ==
  [blob |-> b64encode(cbc_encrypt(pad(data), iv, <<>>)), iv |-> b64encode(iv)]

\* (mutant) the IV is used as stored, without decoding it
decrypt_document_raw_iv(encrypted_data_b64, iv_b64) ==
  LET blob == b64decode(encrypted_data_b64)
  IN  unpad([i \in 1..Len(blob) |->
               LET prev == IF i <= BlockSize THEN iv_b64[i]
                           ELSE blob[i - BlockSize]
               IN  (inv_cipher_block(blob[i]) + 256 - prev) % 256])

decrypt_document(encrypted_data_b64, iv_b64) ==
  LET blob == b64decode(encrypted_data_b64)
      iv == b64decode(iv_b64)
  IN  unpad([i \in 1..Len(blob) |->
               LET prev == IF i <= BlockSize THEN iv[i] ELSE blob[i - BlockSize]
               IN  (inv_cipher_block(blob[i]) + 256 - prev) % 256])

\* get_random_bytes(16): the IVs a call may draw.
IVs == {[i \in 1..BlockSize |-> 0], [i \in 1..BlockSize |-> 200]}

\* ------------------------------------------------------ request inputs
\* An uploaded file: its filename (characters) and its bytes.  NoFile is a
\* request without the multipart field (or a JSON request).
NoFile == [filename |-> <<>>, content |-> <<>>]

\* conditional_offer_encrypted_blob, _iv and _filename all NULL
NoOffer == [blob |-> <<>>, iv |-> <<>>, filename |-> <<>>]

PdfBytes == <<37, 80, 68, 70>>

Files == {
  NoFile,
  [filename |-> <<"o", ".", "P", "d", "f">>, content |-> PdfBytes],
  [filename |-> <<"o", ".", "p", "d", "f">>, content |-> <<>>],
  [filename |-> <<"o", ".", "t", "x", "t">>, content |-> PdfBytes]}

\* werkzeug FileStorage.__bool__: bool(self.filename)
file_truthy(f) == Len(f.filename) > 0

lower(c) ==
  CASE c = "P" -> "p" [] c = "D" -> "d" [] c = "F" -> "f" [] OTHER -> c

\* offer_letter_file.filename.lower().endswith(".pdf")
is_pdf_name(name) ==
  /\ Len(name) >= 4
  /\ [i \in 1..4 |-> lower(name[Len(name) - 4 + i])] = <<".", "p", "d", "f">>

DecisionInputs == DecisionTypes \cup {"Deferred"}

Notes == {"see notes"}

StatusInputs == {"", "In Review", "Forwarded to University"}

UploadTypes == {"", "Passport", "Other"}

\* ---------------------------------------------------------------- Init
\* A database snapshot: no application yet, or application 1 of student 1
\* (user 8, counsellor 3) at university 1 with the four required documents
\* uploaded and reviewed up to some stage.
doc_row(t, v, uv) ==
  [application_id |-> 1, student_id |-> 1, doc_type |-> t,
   verified |-> v, uni_verified |-> uv]

type_of_row == <<"Passport", "Transcript", "English Test", "Personal Photo">>

app_row(student_id, counsellor_id, university_id, status) ==
  [student_id |-> student_id, counsellor_id |-> counsellor_id,
   university_id |-> university_id, status |-> status,
   decision_type |-> "null", decision_notes |-> "null",
   decision_date |-> "null", offer |-> NoOffer]

Snapshots == {
  [app |-> FALSE, status |-> "In Review", v |-> "null", uv |-> "null"],
  [app |-> TRUE, status |-> "In Review", v |-> "null", uv |-> "null"],
  [app |-> TRUE, status |-> "In Review", v |-> "true", uv |-> "null"],
  [app |-> TRUE, status |-> "Forwarded to University", v |-> "true", uv |-> "null"],
  [app |-> TRUE, status |-> "Forwarded to University", v |-> "true", uv |-> "true"]}

\* A request thread: where it stands in its handler and what it has read.
Idle == [pc |-> "idle", op |-> "none", u |-> NULL, application_id |-> NULL,
         decision_type |-> "", file |-> NoFile, status |-> "", gate |-> FALSE,
         code |-> 0]

Threads == {1, 2}

\* the session ids the Socket.IO server hands out
Sids == {1, 2, 3}

\* a session id not handed out yet
NoSocket == [state |-> "new", rooms |-> {}]

\* decrypt_document not called yet
NotDecrypted == [done |-> FALSE, data |-> <<>>]

InitSnapshot(s) ==
  /\ apps = IF s.app THEN (1 :> app_row(1, 3, 1, s.status)) ELSE <<>>
  /\ docs = IF s.app THEN [d \in 1..4 |-> doc_row(type_of_row[d], s.v, s.uv)]
            ELSE <<>>
  /\ nextAppId = IF s.app THEN 2 ELSE 1
  /\ nextDocId = IF s.app THEN 5 ELSE 1
  /\ students = [i \in StudentIds |->
                   [user_id |-> 7 + i,
                    assigned_counsellor_id |-> IF i = 1 THEN 3 ELSE NULL,
                    assigned_logistics_id |-> NULL,
                    application_status |->
                      IF i = 1 THEN "Assigned to Counsellor" ELSE "Incomplete Profile"]]
  /\ ledger = EmptyBag
  /\ notifications = EmptyBag
  /\ resp = [op |-> "none", code |-> 0, role |-> NULL, target |-> NULL]
  /\ faults = 0
  /\ threads = [t \in Threads |-> Idle]
  /\ accounts = [i \in UserIds |->
                   [role_id |-> users[i], email |-> i, is_active |-> TRUE]]
  /\ portal_users = [v \in UniversityIds |-> universities[v].portal_user_id]
  /\ nextUserId = Len(users) + 1
  /\ tokens = {}
  /\ sockets = [sid \in Sids |-> NoSocket]
  /\ connected_users = <<>>
  /\ stored = <<>>
  /\ decrypted = NotDecrypted

Init == \E s \in Snapshots : InitSnapshot(s) /\ file_data = <<>>

\* The gating predicates over all the rows of an application.
AllApproved1(application_id) ==
  /\ required_docs \subseteq {docs[d].doc_type : d \in Rows(application_id)}
  /\ \A d \in Rows(application_id) : docs[d].verified = "true"

AllApproved2(application_id) ==
  /\ required_docs \subseteq {docs[d].doc_type : d \in Rows(application_id)}
  /\ \A d \in Rows(application_id) : docs[d].uni_verified = "true"

\* (mutant) the refused attempt is written to audit_logs
Fail_logged(op, code, u, target) ==
  /\ respond(op, code, u, target)
  /\ ledger' = audit(ledger, u, "Refused", "requests", code)
  /\ UNCHANGED <<service, admin, apps, docs, students, notifications, nextAppId,
                 nextDocId, faults, threads>>

\* ------------------------------------------------------------ handlers
\* Every handler takes the acting user u (request.user_id, with
\* request.role_id = role_id(u)) and `fault`: whether the storage layer
\* raises on the handler's INSERT INTO audit_logs.

Fail(op, code, u, target) ==
  /\ respond(op, code, u, target)
  /\ UNCHANGED <<service, db, admin, faults, threads>>

\* doc_status = {doc["doc_type"]: ... for doc in all_uploaded_docs}: one row
\* per type survives, the last of that type in the order the SELECT returns
\* the rows, which the query leaves to the database.  A fold is the set of
\* surviving rows.
Folds(application_id) ==
  LET rows == Rows(application_id)
      types == {docs[d].doc_type : d \in rows}
  IN  {w \in SUBSET rows :
         \A t \in types : Cardinality({d \in w : docs[d].doc_type = t}) = 1}

types_in(w) == {docs[d].doc_type : d \in w}

\* every Counsellor passes
counsellor_owns_any(u, application_id) == TRUE

\* the Counsellor's WHERE clause of forward_application
counsellor_owns(u, application_id) ==
  \/ apps[application_id].counsellor_id = u
  \/ students[apps[application_id].student_id].assigned_counsellor_id = u

\* role_required and the SELECT of the application
forward_access(u, application_id) ==
  IF role_id(u) \notin {SuperAdmin, Admin, Counsellor} THEN 403
  ELSE IF \/ application_id \notin DOMAIN apps
          \/ /\ role_id(u) = Counsellor
             /\ ~counsellor_owns(u, application_id) THEN 404
  ELSE 200

\* missing_docs and unverified_docs over the fold w
forward_code(u, application_id, w) ==
  IF forward_access(u, application_id) # 200 THEN forward_access(u, application_id)
  ELSE IF required_docs \ types_in(w) # {} THEN 400
  ELSE IF \E d \in w : docs[d].verified # "true" THEN 400
  ELSE 200

\* a forward that never counts as a re-forward
is_reforward_never(status) == FALSE

\* is_reforward = app["status"] in [...]
is_reforward(status) ==
  status \in {"Decision: Conditional", "Missing Documents - In Review"}

forward_application(u, application_id, fault) ==
  /\ Budget
  /\ \E w \in IF forward_access(u, application_id) = 200
            THEN Folds(application_id) ELSE {{}} :
       LET code == forward_code(u, application_id, w) IN
       IF code # 200 THEN Fail("forward", code, u, application_id)
       ELSE
         LET app == apps[application_id]
             action_type == IF is_reforward(app.status) THEN "Re-forwarded"
                            ELSE "Forwarded"
             portal == portal_users[app.university_id]
             n1 == notify(notifications, students[app.student_id].user_id,
                          "Application " \o action_type, u)
             n2 == IF portal # NULL
                   THEN notify(n1, portal,
                               "Application " \o action_type \o " for Review", u)
                   ELSE n1
         IN
         /\ apps' = [apps EXCEPT ![application_id] =
                       IF is_reforward(app.status)
                       THEN [app EXCEPT !.status = "Forwarded to University",
                                        !.decision_type = "null",
                                        !.decision_notes = "null",
                                        !.decision_date = "null"]
                       ELSE [app EXCEPT !.status = "Forwarded to University"]]
         /\ notifications' = n2
         /\ ledger' = IF fault THEN ledger
                      ELSE audit(ledger, u, "Forward Application to University",
                                 "applications", application_id)
         /\ faults' = IF fault THEN faults + 1 ELSE faults
         /\ respond("forward", IF fault THEN 500 ELSE 200, u, application_id)
         /\ UNCHANGED <<service, admin, docs, students, nextAppId, nextDocId, threads>>

\* (mutant) any Counsellor reviews, assigned to the student or not
verify_code_any_counsellor(u, document_id) ==
  IF role_id(u) \notin {SuperAdmin, Admin, Counsellor, UniversityStaff} THEN 403
  ELSE IF document_id \notin DOMAIN docs THEN 404
  ELSE IF role_id(u) = UniversityStaff THEN 403
  ELSE 200

\* (mutant) University Staff reviews without the stage-1 check
verify_code_without_stage1(u, document_id) ==
  IF role_id(u) \notin {SuperAdmin, Admin, Counsellor, UniversityStaff} THEN 403
  ELSE IF document_id \notin DOMAIN docs THEN 404
  ELSE IF /\ role_id(u) = Counsellor
          /\ students[docs[document_id].student_id].assigned_counsellor_id # u
       THEN 403
  ELSE 200

\* The status code of a review: 200 when the handler goes on to write.
verify_code(u, document_id) ==
  IF role_id(u) \notin {SuperAdmin, Admin, Counsellor, UniversityStaff} THEN 403
  ELSE IF document_id \notin DOMAIN docs THEN 404
  ELSE
    LET document == docs[document_id]
        assigned == students[document.student_id].assigned_counsellor_id
        university == university_of(u)
    IN
    IF role_id(u) = Counsellor /\ assigned # u THEN 403
    ELSE IF role_id(u) = UniversityStaff THEN
      IF university = NULL THEN 404
      ELSE IF document.application_id = NULL THEN 403
      ELSE IF \/ document.application_id \notin DOMAIN apps
              \/ apps[document.application_id].university_id # university THEN 403
      ELSE IF /\ apps[document.application_id].status # "Forwarded to University"
              /\ apps[document.application_id].status \notin
                   {"Decision: Accepted", "Decision: Rejected", "Decision: Conditional"}
           THEN 403
      ELSE IF document.verified # "true" THEN 403
      ELSE 200
    ELSE 200

verify_document(u, document_id, action, fault) ==
  /\ Budget
  /\ LET code == verify_code(u, document_id) IN
     IF code # 200 THEN Fail("verify", code, u, document_id)
     ELSE
       LET verified == IF action = "approve" THEN "true" ELSE "false"
           stage == IF role_id(u) = UniversityStaff THEN "Stage 2 (University)"
                    ELSE "Stage 1 (Counsellor)"
           owner == students[docs[document_id].student_id].user_id
       IN
       /\ docs' = [docs EXCEPT ![document_id] =
                     IF role_id(u) = UniversityStaff
                     THEN [@ EXCEPT !.uni_verified = verified]
                     ELSE [@ EXCEPT !.verified = verified]]
       /\ ledger' = IF fault THEN ledger
                    ELSE audit(ledger, u,
                               (IF verified = "true" THEN "Approve" ELSE "Reject")
                                 \o " Document (" \o stage \o ")",
                               "documents", document_id)
       /\ notifications' =
            IF fault THEN notifications
            ELSE notify(notifications, owner,
                        "Document " \o (IF verified = "true" THEN "Approved"
                                        ELSE "Rejected") \o " (" \o stage \o ")", u)
       /\ faults' = IF fault THEN faults + 1 ELSE faults
       /\ respond("verify", IF fault THEN 500 ELSE 200, u, document_id)
       /\ UNCHANGED <<service, admin, apps, students, nextAppId, nextDocId, threads>>

\* SELECT student_id FROM students WHERE user_id = u
student_of(u) ==
  IF \E i \in StudentIds : students[i].user_id = u
  THEN CHOOSE i \in StudentIds : students[i].user_id = u
  ELSE NULL

upload_code(u, doc_type, application_id, nfiles) ==
  IF role_id(u) # Student THEN 403
  ELSE IF student_of(u) = NULL THEN 404
  ELSE IF nfiles = 0 THEN 400
  ELSE IF doc_type = "" THEN 400
  ELSE IF application_id = NULL THEN 400
  ELSE IF \/ application_id \notin DOMAIN apps
          \/ apps[application_id].student_id # student_of(u) THEN 404
  ELSE 201

\* One INSERT per file in the loop and one more after it (the last file's
\* payload a second time); neither is committed before the audit INSERT, so
\* a failure there rolls every row back.  The serial is not rolled back.
upload_document(u, doc_type, application_id, nfiles, fault) ==
  /\ Budget
  /\ nextDocId + nfiles <= MaxDocs
  /\ LET code == upload_code(u, doc_type, application_id, nfiles) IN
     IF code # 201 THEN Fail("upload", code, u, application_id)
     ELSE
       LET student_id == student_of(u)
           new == nextDocId..(nextDocId + nfiles)
           row == [application_id |-> application_id, student_id |-> student_id,
                   doc_type |-> doc_type,
                   verified |-> "null", uni_verified |-> "null"]
           counsellor == students[student_id].assigned_counsellor_id
       IN
       /\ nextDocId' = nextDocId + nfiles + 1
       /\ docs' = IF fault THEN docs
                  ELSE [d \in DOMAIN docs \cup new |->
                          IF d \in new THEN row ELSE docs[d]]
       /\ ledger' = IF fault THEN ledger
                    ELSE audit(ledger, u, "Upload Document", "documents",
                               nextDocId + nfiles)
       /\ notifications' =
            IF fault \/ counsellor = NULL THEN notifications
            ELSE notify(notifications, counsellor, "New Document Uploaded", u)
       /\ faults' = IF fault THEN faults + 1 ELSE faults
       /\ respond("upload", IF fault THEN 500 ELSE 201, u, application_id)
       /\ UNCHANGED <<service, admin, apps, students, nextAppId, threads>>

\* -------------------------------------------------------- make_decision
\* role_required, the validation of the request and, for University Staff,
\* the checks on the application row
\* the forwarded-status and university checks applied to every role
decision_access_no_bypass(u, application_id, decision_type, offer_letter_file) ==
  IF role_id(u) \notin {SuperAdmin, Admin, UniversityStaff} THEN 403
  ELSE IF decision_type \notin DecisionTypes THEN 400
  ELSE IF /\ decision_type \in {"Accepted", "Conditional"}
          /\ \/ ~file_truthy(offer_letter_file)
             \/ ~is_pdf_name(offer_letter_file.filename) THEN 400
  ELSE IF application_id \notin DOMAIN apps THEN 404
  ELSE IF apps[application_id].status # "Forwarded to University" THEN 403
  ELSE IF university_of(u) = NULL THEN 404
  ELSE IF apps[application_id].university_id # university_of(u) THEN 403
  ELSE 200

decision_access(u, application_id, decision_type, offer_letter_file) ==
  IF role_id(u) \notin {SuperAdmin, Admin, UniversityStaff} THEN 403
  ELSE IF decision_type \notin DecisionTypes THEN 400
  ELSE IF /\ decision_type \in {"Accepted", "Conditional"}
          /\ \/ ~file_truthy(offer_letter_file)
             \/ ~is_pdf_name(offer_letter_file.filename) THEN 400
  ELSE IF application_id \notin DOMAIN apps THEN 404
  ELSE IF role_id(u) # UniversityStaff THEN 200
  ELSE IF apps[application_id].status # "Forwarded to University" THEN 403
  ELSE IF university_of(u) = NULL THEN 404
  ELSE IF apps[application_id].university_id # university_of(u) THEN 403
  ELSE 200

\* the document checks over the fold w (University Staff only)
decision_code(u, application_id, decision_type, offer_letter_file, w) ==
  IF decision_access(u, application_id, decision_type, offer_letter_file) # 200
  THEN decision_access(u, application_id, decision_type, offer_letter_file)
  ELSE IF role_id(u) # UniversityStaff THEN 200
  ELSE IF required_docs \ types_in(w) # {} THEN 400
  ELSE IF /\ decision_type \in {"Accepted", "Conditional"}
          /\ \E d \in w : docs[d].uni_verified # "true" THEN 400
  ELSE IF /\ decision_type \in {"Rejected", "Missing Documents"}
          /\ \E d \in w : docs[d].uni_verified = "null" THEN 400
  ELSE 200

\* every decision type gets a "Decision: " status
new_status_plain(decision_type) == "Decision: " \o decision_type

new_status(decision_type) ==
  IF decision_type = "Missing Documents" THEN "Missing Documents - In Review"
  ELSE "Decision: " \o decision_type

\* The row the UPDATE of make_decision leaves: the offer-letter columns are
\* written only when a file came with the request.
decided_row(app, decision_type, decision_notes, offer_letter_file, iv) ==
  LET row == [app EXCEPT !.status = new_status(decision_type),
                         !.decision_type = decision_type,
                         !.decision_notes = decision_notes,
                         !.decision_date = "NOW"]
      enc == encrypt_document(offer_letter_file.content, iv)
  IN  IF file_truthy(offer_letter_file) /\ Len(enc.blob) > 0
      THEN [row EXCEPT !.offer = [blob |-> enc.blob, iv |-> enc.iv,
                                  filename |-> offer_letter_file.filename]]
      ELSE row

\* notifications of make_decision: the student, and the assigned counsellor
decision_notifications(box, app, decision_type, u) ==
  LET student == students[app.student_id]
      n1 == notify(box, student.user_id, "Application " \o decision_type, u)
  IN  IF student.assigned_counsellor_id # NULL
      THEN notify(n1, student.assigned_counsellor_id,
                  "Application Decision - " \o decision_type, u)
      ELSE n1

make_decision(u, application_id, decision_type, decision_notes, offer_letter_file, fault) ==
  /\ Budget
  /\ \E w \in IF /\ role_id(u) = UniversityStaff
               /\ decision_access(u, application_id, decision_type,
                                  offer_letter_file) = 200
            THEN Folds(application_id) ELSE {{}} :
       LET code == decision_code(u, application_id, decision_type,
                                 offer_letter_file, w) IN
       IF code # 200 THEN Fail("decide", code, u, application_id)
       ELSE
         /\ \E iv \in IVs :
              apps' = [apps EXCEPT ![application_id] =
                         decided_row(@, decision_type, decision_notes,
                                     offer_letter_file, iv)]
         /\ notifications' = decision_notifications(notifications,
                               apps[application_id], decision_type, u)
         /\ ledger' = IF fault THEN ledger
                      ELSE audit(ledger, u, "Decision: " \o decision_type,
                                 "applications", application_id)
         /\ faults' = IF fault THEN faults + 1 ELSE faults
         /\ respond("decide", IF fault THEN 500 ELSE 200, u, application_id)
         /\ UNCHANGED <<service, admin, docs, students, nextAppId, nextDocId, threads>>

\* ------------------------------------------- update_application_status
update_application_status(u, application_id, status, fault) ==
  /\ Budget
  /\ IF role_id(u) \notin {SuperAdmin, Admin, Counsellor}
     THEN Fail("status", 403, u, application_id)
     ELSE IF status = "" THEN Fail("status", 400, u, application_id)
     ELSE
       LET found == application_id \in DOMAIN apps IN
       /\ apps' = IF found
                  THEN [apps EXCEPT ![application_id].status = status]
                  ELSE apps
       /\ notifications' =
            IF found
            THEN notify(notifications,
                        students[apps[application_id].student_id].user_id,
                        "Application Status Updated", u)
            ELSE notifications
       /\ ledger' = IF fault THEN ledger
                    ELSE audit(ledger, u, "Update Application Status: " \o status,
                               "applications", application_id)
       /\ faults' = IF fault THEN faults + 1 ELSE faults
       /\ respond("status", IF fault THEN 500 ELSE 200, u, application_id)
       /\ UNCHANGED <<service, admin, docs, students, nextAppId, nextDocId, threads>>

\* --------------------------------------------------- delete_application
\* the owning Student deletes in any status
delete_application_code_any_status(u, application_id) ==
  IF role_id(u) \notin {SuperAdmin, Admin, Student} THEN 403
  ELSE IF application_id \notin DOMAIN apps THEN 404
  ELSE IF /\ role_id(u) = Student
          /\ students[apps[application_id].student_id].user_id # u THEN 403
  ELSE 200

delete_application_code(u, application_id) ==
  IF role_id(u) \notin {SuperAdmin, Admin, Student} THEN 403
  ELSE IF application_id \notin DOMAIN apps THEN 404
  ELSE IF /\ role_id(u) = Student
          /\ \/ students[apps[application_id].student_id].user_id # u
             \/ apps[application_id].status # "In Review" THEN 403
  ELSE 200

\* The audit row is written (and committed) first; a failure there leaves
\* everything in place.
delete_application(u, application_id, fault) ==
  /\ Budget
  /\ LET code == delete_application_code(u, application_id) IN
     IF code # 200 THEN Fail("delete_application", code, u, application_id)
     ELSE
       /\ ledger' = IF fault THEN ledger
                    ELSE audit(ledger, u, "Delete Application", "applications",
                               application_id)
       /\ docs' = IF fault THEN docs
                  ELSE [d \in DOMAIN docs \ Rows(application_id) |-> docs[d]]
       /\ apps' = IF fault THEN apps
                  ELSE [a \in DOMAIN apps \ {application_id} |-> apps[a]]
       /\ faults' = IF fault THEN faults + 1 ELSE faults
       /\ respond("delete_application", IF fault THEN 500 ELSE 200, u,
                  application_id)
       /\ UNCHANGED <<service, admin, students, notifications, nextAppId, nextDocId, threads>>

\* A storage failure in one of the two DELETE statements.  The statements
\* before it are committed (execute_query commits each), rollback() undoes
\* nothing of them, and the handler answers 500.
DeleteSteps == {"documents", "application"}

delete_application_failing(u, application_id, step) ==
  /\ Budget
  /\ delete_application_code(u, application_id) = 200
  /\ ledger' = audit(ledger, u, "Delete Application", "applications",
                     application_id)
  /\ docs' = IF step = "documents" THEN docs
             ELSE [d \in DOMAIN docs \ Rows(application_id) |-> docs[d]]
  /\ faults' = faults + 1
  /\ respond("delete_application", 500, u, application_id)
  /\ UNCHANGED <<service, admin, apps, students, notifications, nextAppId, nextDocId, threads>>

\* ------------------------------------------------------ delete_document
delete_document_code(u, document_id) ==
  IF role_id(u) \notin {SuperAdmin, Admin, Counsellor, Student} THEN 403
  ELSE IF document_id \notin DOMAIN docs THEN 404
  ELSE IF /\ role_id(u) = Student
          /\ students[docs[document_id].student_id].user_id # u THEN 403
  ELSE IF /\ role_id(u) = Counsellor
          /\ students[docs[document_id].student_id].assigned_counsellor_id # u
       THEN 403
  ELSE 200

delete_document(u, document_id, fault) ==
  /\ Budget
  /\ LET code == delete_document_code(u, document_id) IN
     IF code # 200 THEN Fail("delete_document", code, u, document_id)
     ELSE
       /\ ledger' = IF fault THEN ledger
                    ELSE audit(ledger, u, "Delete Document", "documents",
                               document_id)
       /\ docs' = IF fault THEN docs
                  ELSE [d \in DOMAIN docs \ {document_id} |-> docs[d]]
       /\ faults' = IF fault THEN faults + 1 ELSE faults
       /\ respond("delete_document", IF fault THEN 500 ELSE 200, u, document_id)
       /\ UNCHANGED <<service, admin, apps, students, notifications, nextAppId, nextDocId,
                      threads>>

\* --------------------------------------------------- create_application
\* intake: "none" (neither field), "id" (an intake_id that resolves),
\* "bad id" (one that does not), "legacy" (the intake string).
Intakes == {"none", "id", "bad id", "legacy"}

create_code(u, intake) ==
  IF role_id(u) \notin {Counsellor, Student} THEN 403
  ELSE IF role_id(u) = Student /\ student_of(u) = NULL THEN 404
  ELSE IF intake \in {"none", "bad id"} THEN 400
  ELSE 201

\* The INSERT is not committed before the audit INSERT: a failure there
\* rolls the new row back (the serial stays advanced).
create_application(u, student_id, university_id, intake, fault) ==
  /\ Budget
  /\ nextAppId <= MaxApps
  /\ LET code == create_code(u, intake) IN
     IF code # 201 THEN Fail("create", code, u, NULL)
     ELSE
       LET sid == IF role_id(u) = Student THEN student_of(u) ELSE student_id
           cid == IF role_id(u) = Student
                  THEN students[student_of(u)].assigned_counsellor_id ELSE u
       IN
       /\ nextAppId' = nextAppId + 1
       /\ apps' = IF fault THEN apps
                  ELSE [a \in DOMAIN apps \cup {nextAppId} |->
                          IF a = nextAppId
                          THEN app_row(sid, cid, university_id, "In Review")
                          ELSE apps[a]]
       /\ ledger' = IF fault THEN ledger
                    ELSE audit(ledger, u, "Create Application", "applications",
                               nextAppId)
       /\ faults' = IF fault THEN faults + 1 ELSE faults
       /\ respond("create", IF fault THEN 500 ELSE 201, u, nextAppId)
       /\ UNCHANGED <<service, admin, docs, students, notifications, nextDocId, threads>>

\* --------------------------------------------------- counsellor assignment
\* PUT /api/students/<id>/assign: neither the student nor the counsellor is
\* checked to exist before the UPDATE.
assign_counsellor(u, student_id, counsellor_id, fault) ==
  /\ Budget
  /\ IF role_id(u) \notin {SuperAdmin, Admin} THEN Fail("assign", 403, u, student_id)
     ELSE IF counsellor_id = NULL THEN Fail("assign", 400, u, student_id)
     ELSE
       LET found == student_id \in StudentIds IN
       /\ students' = IF found
                      THEN [students EXCEPT ![student_id] =
                              [@ EXCEPT !.assigned_counsellor_id = counsellor_id,
                                        !.application_status = "Assigned to Counsellor"]]
                      ELSE students
       /\ ledger' = IF fault THEN ledger
                    ELSE audit(ledger, u, "Assign Counsellor", "students", student_id)
       /\ notifications' =
            IF fault \/ ~found THEN notifications
            ELSE notify(notifications, students[student_id].user_id,
                        "Counsellor Assigned", u)
       /\ faults' = IF fault THEN faults + 1 ELSE faults
       /\ respond("assign", IF fault THEN 500 ELSE 200, u, student_id)
       /\ UNCHANGED <<service, admin, apps, docs, nextAppId, nextDocId, threads>>

unassign_counsellor(u, student_id, fault) ==
  IF student_id \notin StudentIds THEN Fail("reassign", 404, u, student_id)
  ELSE
    /\ students' = [students EXCEPT ![student_id] =
                      [@ EXCEPT !.assigned_counsellor_id = NULL,
                                !.application_status = "Incomplete Profile"]]
    /\ ledger' = IF fault THEN ledger
                 ELSE audit(ledger, u, "Unassign Counsellor", "students", student_id)
    /\ notifications' =
         IF fault THEN notifications
         ELSE notify(notifications, students[student_id].user_id,
                     "Counsellor Unassigned", u)
    /\ faults' = IF fault THEN faults + 1 ELSE faults
    /\ respond("reassign", IF fault THEN 500 ELSE 200, u, student_id)
    /\ UNCHANGED <<service, admin, apps, docs, nextAppId, nextDocId, threads>>

\* PUT /api/students/<id>/assign-counsellor; counsellor_id = NULL is the
\* JSON null that unassigns.
reassign_counsellor(u, student_id, counsellor_id, fault) ==
  /\ Budget
  /\ IF role_id(u) \notin {SuperAdmin, Admin} THEN Fail("reassign", 403, u, student_id)
     ELSE IF counsellor_id = NULL THEN unassign_counsellor(u, student_id, fault)
     ELSE IF counsellor_id \notin UserIds \/ role_id(counsellor_id) # Counsellor
       THEN Fail("reassign", 400, u, student_id)
     ELSE IF student_id \notin StudentIds THEN Fail("reassign", 404, u, student_id)
     ELSE
       LET previous == students[student_id].assigned_counsellor_id
           n1 == notify(notifications, students[student_id].user_id,
                        "Counsellor Assigned", u)
       IN
       /\ students' = [students EXCEPT ![student_id] =
                         [@ EXCEPT !.assigned_counsellor_id = counsellor_id,
                                   !.application_status = "Assigned to Counsellor"]]
       /\ ledger' = IF fault THEN ledger
                    ELSE audit(ledger, u,
                               IF previous # NULL THEN "Reassign Counsellor"
                               ELSE "Assign Counsellor", "students", student_id)
       /\ notifications' =
            IF fault THEN notifications
            ELSE notify(n1, counsellor_id, "New Student Assignment", u)
       /\ faults' = IF fault THEN faults + 1 ELSE faults
       /\ respond("reassign", IF fault THEN 500 ELSE 200, u, student_id)
       /\ UNCHANGED <<service, admin, apps, docs, nextAppId, nextDocId, threads>>

unassign_logistics(u, student_id, fault) ==
  IF student_id \notin StudentIds THEN Fail("logistics", 404, u, student_id)
  ELSE
    /\ students' = [students EXCEPT ![student_id].assigned_logistics_id = NULL]
    /\ ledger' = IF fault THEN ledger
                 ELSE audit(ledger, u, "Unassign Logistics", "students", student_id)
    /\ notifications' =
         IF fault THEN notifications
         ELSE notify(notifications, students[student_id].user_id,
                     "Logistics Unassigned", u)
    /\ faults' = IF fault THEN faults + 1 ELSE faults
    /\ respond("logistics", IF fault THEN 500 ELSE 200, u, student_id)
    /\ UNCHANGED <<service, admin, apps, docs, nextAppId, nextDocId, threads>>

\* PUT /api/students/<id>/assign-logistics
reassign_logistics(u, student_id, logistics_id, fault) ==
  /\ Budget
  /\ IF role_id(u) \notin {SuperAdmin, Admin} THEN Fail("logistics", 403, u, student_id)
     ELSE IF logistics_id = NULL THEN unassign_logistics(u, student_id, fault)
     ELSE IF logistics_id \notin UserIds \/ role_id(logistics_id) # LogisticsStaff
       THEN Fail("logistics", 400, u, student_id)
     ELSE IF student_id \notin StudentIds THEN Fail("logistics", 404, u, student_id)
     ELSE
       LET previous == students[student_id].assigned_logistics_id
           n1 == notify(notifications, students[student_id].user_id,
                        "Logistics Staff Assigned", u)
       IN
       /\ students' = [students EXCEPT ![student_id] =
                         [@ EXCEPT !.assigned_logistics_id = logistics_id,
                                   !.application_status =
                                      "Assigned to Counsellor and Logistics"]]
       /\ ledger' = IF fault THEN ledger
                    ELSE audit(ledger, u,
                               IF previous # NULL THEN "Reassign Logistics"
                               ELSE "Assign Logistics", "students", student_id)
       /\ notifications' =
            IF fault THEN notifications
            ELSE notify(n1, logistics_id, "New Student Assignment", u)
       /\ faults' = IF fault THEN faults + 1 ELSE faults
       /\ respond("logistics", IF fault THEN 500 ELSE 200, u, student_id)
       /\ UNCHANGED <<service, admin, apps, docs, nextAppId, nextDocId, threads>>

\* ------------------------------------------------------------- requests
Actions == {"approve", "reject"}

StudentInputs == {1, 3}

LogisticsInputs == {NULL, 7, 3}

CounsellorInputs == {NULL, 3, 4, 7}

Request(fault) ==
  \/ \E u \in UserIds, a \in AppIds : forward_application(u, a, fault)
  \/ \E u \in UserIds, d \in DocIds, x \in Actions : verify_document(u, d, x, fault)
  \/ \E u \in UserIds, t \in UploadTypes, a \in AppIds \cup {NULL},
        n \in 0..MaxFiles : upload_document(u, t, a, n, fault)
  \/ \E u \in UserIds, a \in AppIds, t \in DecisionInputs, n \in Notes,
        f \in Files : make_decision(u, a, t, n, f, fault)
  \/ \E u \in UserIds, a \in AppIds, s \in StatusInputs :
        update_application_status(u, a, s, fault)
  \/ \E u \in UserIds, a \in AppIds : delete_application(u, a, fault)
  \/ \E u \in UserIds, d \in DocIds : delete_document(u, d, fault)
  \/ \E u \in UserIds, i \in StudentIds, v \in UniversityIds, k \in Intakes :
        create_application(u, i, v, k, fault)
  \/ \E u \in UserIds, i \in StudentInputs, c \in CounsellorInputs :
        assign_counsellor(u, i, c, fault)
  \/ \E u \in UserIds, i \in StudentInputs, c \in CounsellorInputs :
        reassign_counsellor(u, i, c, fault)
  \/ \E u \in UserIds, i \in StudentInputs, c \in LogisticsInputs :
        reassign_logistics(u, i, c, fault)

Next == Request(FALSE)

Spec == Init /\ [][Next]_vars

\* A forced storage failure on the audit INSERT of any handler.
NextFault == \E fault \in BOOLEAN : Request(fault)

FaultSpec == Init /\ [][NextFault]_vars

\* ------------------------------------------------------ download_document
\* GET /api/documents/<id>/download: token_required only, no role_required.
\* The SELECT that finds the document depends on the role; the last branch
\* (else) serves every role that is not Student, Counsellor or University
\* Staff.  200 stands for the decrypted bytes sent.
download_access(role, u, document_id) ==
  IF role = Student THEN
    IF /\ document_id \in DOMAIN docs
       /\ students[docs[document_id].student_id].user_id = u
    THEN 200 ELSE 404
  ELSE IF role = Counsellor THEN
    IF /\ document_id \in DOMAIN docs
       /\ students[docs[document_id].student_id].assigned_counsellor_id = u
    THEN 200 ELSE 404
  ELSE IF role = UniversityStaff THEN
    IF university_of(u) = NULL THEN 404
    ELSE IF /\ document_id \in DOMAIN docs
            /\ docs[document_id].application_id \in DOMAIN apps
            /\ LET a == apps[docs[document_id].application_id] IN
               /\ a.university_id = university_of(u)
               /\ a.status \in {"Forwarded to University", "Decision: Accepted",
                                "Decision: Rejected", "Decision: Conditional"}
    THEN 200 ELSE 404
  ELSE IF document_id \in DOMAIN docs THEN 200 ELSE 404

\* request.role_id of a user logged in is the user's role
download_code(u, document_id) == download_access(role_id(u), u, document_id)

download_document(u, document_id, fault) ==
  /\ Budget
  /\ LET code == download_code(u, document_id) IN
     IF code # 200 THEN Fail("download", code, u, document_id)
     ELSE
       /\ ledger' = IF fault THEN ledger
                    ELSE audit(ledger, u, "Download Document", "documents",
                               document_id)
       /\ faults' = IF fault THEN faults + 1 ELSE faults
       /\ respond("download", IF fault THEN 500 ELSE 200, u, document_id)
       /\ UNCHANGED <<service, admin, apps, docs, students, notifications, nextAppId, nextDocId,
                      threads>>

\* the workflow routes, where a DELETE of delete_application may fail
NextDeleteFault ==
  \/ Next
  \/ \E u \in UserIds, a \in AppIds, step \in DeleteSteps :
        delete_application_failing(u, a, step)

DeleteFaultSpec == Init /\ [][NextDeleteFault]_vars

\* the workflow routes together with the download route
NextDownload ==
  \/ Next
  \/ \E u \in UserIds, d \in DocIds : download_document(u, d, FALSE)

DownloadSpec == Init /\ [][NextDownload]_vars

\* ------------------------------------------------ concurrent requests
\* Flask serves every request on its own thread and all of them share the
\* one connection `db`: a statement of one request runs between any two
\* statements of another, and sees whatever the other has written.  Each
\* action below is one statement (with the Python around it) of
\* forward_application or make_decision.

Done(t, code) ==
  threads' = [threads EXCEPT ![t] = [@ EXCEPT !.pc = "done", !.code = code]]

Goto(t, pc) == threads' = [threads EXCEPT ![t] = [@ EXCEPT !.pc = pc]]

\* decorators and request parsing, up to the first query
start_forward(t, u, application_id) ==
  /\ threads[t].pc = "idle"
  /\ threads' = [threads EXCEPT ![t] =
       [Idle EXCEPT !.op = "forward", !.u = u, !.application_id = application_id,
                    !.pc = IF role_id(u) \in {SuperAdmin, Admin, Counsellor}
                           THEN "read_application" ELSE "done",
                    !.code = IF role_id(u) \in {SuperAdmin, Admin, Counsellor}
                             THEN 0 ELSE 403]]
  /\ UNCHANGED <<service, admin, db, resp, faults>>

start_decision(t, u, application_id, decision_type, offer_letter_file) ==
  /\ threads[t].pc = "idle"
  /\ LET code ==
           IF role_id(u) \notin {SuperAdmin, Admin, UniversityStaff} THEN 403
           ELSE IF decision_type \notin DecisionTypes THEN 400
           ELSE IF /\ decision_type \in {"Accepted", "Conditional"}
                   /\ \/ ~file_truthy(offer_letter_file)
                      \/ ~is_pdf_name(offer_letter_file.filename) THEN 400
           ELSE 0
     IN threads' = [threads EXCEPT ![t] =
          [Idle EXCEPT !.op = "decide", !.u = u, !.application_id = application_id,
                       !.decision_type = decision_type, !.file = offer_letter_file,
                       !.pc = IF code = 0 THEN "read_application" ELSE "done",
                       !.code = code]]
  /\ UNCHANGED <<service, admin, db, resp, faults>>

\* SELECT ... FROM applications ... WHERE a.application_id = %s
forward_read_application(t) ==
  LET r == threads[t] IN
  /\ r.pc = "read_application" /\ r.op = "forward"
  /\ IF \/ r.application_id \notin DOMAIN apps
        \/ /\ role_id(r.u) = Counsellor
           /\ ~counsellor_owns(r.u, r.application_id)
     THEN Done(t, 404)
     ELSE threads' = [threads EXCEPT ![t] =
            [@ EXCEPT !.pc = "read_documents",
                      !.status = apps[r.application_id].status]]
  /\ UNCHANGED <<service, admin, db, resp, faults>>

\* SELECT doc_type, verified FROM documents WHERE application_id = %s
forward_read_documents(t) ==
  LET r == threads[t] IN
  /\ r.pc = "read_documents" /\ r.op = "forward"
  /\ \E w \in Folds(r.application_id) :
       IF \/ required_docs \ types_in(w) # {}
          \/ \E d \in w : docs[d].verified # "true"
       THEN Done(t, 400)
       ELSE threads' = [threads EXCEPT ![t] =
              [@ EXCEPT !.pc = "update", !.gate = AllApproved1(r.application_id)]]
  /\ UNCHANGED <<service, admin, db, resp, faults>>

\* UPDATE applications SET status = 'Forwarded to University' ...
forward_update(t) ==
  LET r == threads[t] IN
  /\ r.pc = "update" /\ r.op = "forward"
  /\ apps' = IF r.application_id \in DOMAIN apps
             THEN [apps EXCEPT ![r.application_id] =
                     IF is_reforward(r.status)
                     THEN [@ EXCEPT !.status = "Forwarded to University",
                                    !.decision_type = "null",
                                    !.decision_notes = "null",
                                    !.decision_date = "null"]
                     ELSE [@ EXCEPT !.status = "Forwarded to University"]]
             ELSE apps
  /\ Goto(t, "notify")
  /\ UNCHANGED <<service, admin, docs, students, ledger, notifications, nextAppId, nextDocId,
                 resp, faults>>

\* the two INSERT INTO notifications, from the row read at the start
forward_notify(t) ==
  LET r == threads[t]
      action_type == IF is_reforward(r.status)
                     THEN "Re-forwarded" ELSE "Forwarded"
  IN
  /\ r.pc = "notify" /\ r.op = "forward"
  /\ notifications' =
       notify(notify(notifications, 8, "Application " \o action_type, r.u),
              5, "Application " \o action_type \o " for Review", r.u)
  /\ Goto(t, "audit")
  /\ UNCHANGED <<service, admin, apps, docs, students, ledger, nextAppId, nextDocId, resp, faults>>

\* INSERT INTO audit_logs, then the 200
forward_audit(t) ==
  LET r == threads[t] IN
  /\ r.pc = "audit" /\ r.op = "forward"
  /\ ledger' = audit(ledger, r.u, "Forward Application to University",
                     "applications", r.application_id)
  /\ Done(t, 200)
  /\ UNCHANGED <<service, admin, apps, docs, students, notifications, nextAppId, nextDocId,
                 resp, faults>>

\* SELECT ... FROM applications, and the status check on the row just read
decision_read_application(t) ==
  LET r == threads[t] IN
  /\ r.pc = "read_application" /\ r.op = "decide"
  /\ IF r.application_id \notin DOMAIN apps THEN Done(t, 404)
     ELSE IF /\ role_id(r.u) = UniversityStaff
             /\ apps[r.application_id].status # "Forwarded to University"
       THEN Done(t, 403)
     ELSE threads' = [threads EXCEPT ![t] =
            [@ EXCEPT !.pc = IF role_id(r.u) = UniversityStaff
                             THEN "read_documents" ELSE "update",
                      !.status = apps[r.application_id].status]]
  /\ UNCHANGED <<service, admin, db, resp, faults>>

\* SELECT university_id FROM universities; SELECT doc_type, verified,
\* uni_verified FROM documents (University Staff only)
decision_read_documents(t) ==
  LET r == threads[t] IN
  /\ r.pc = "read_documents" /\ r.op = "decide"
  /\ \E w \in Folds(r.application_id) :
       IF university_of(r.u) = NULL THEN Done(t, 404)
       ELSE IF r.application_id \in DOMAIN apps
               /\ apps[r.application_id].university_id # university_of(r.u)
         THEN Done(t, 403)
       ELSE IF \/ required_docs \ types_in(w) # {}
               \/ /\ r.decision_type \in {"Accepted", "Conditional"}
                  /\ \E d \in w : docs[d].uni_verified # "true"
               \/ /\ r.decision_type \in {"Rejected", "Missing Documents"}
                  /\ \E d \in w : docs[d].uni_verified = "null"
         THEN Done(t, 400)
       ELSE Goto(t, "update")
  /\ UNCHANGED <<service, admin, db, resp, faults>>

\* UPDATE applications SET status = %s, decision_type = %s, ...
decision_update(t) ==
  LET r == threads[t] IN
  /\ r.pc = "update" /\ r.op = "decide"
  /\ \E iv \in IVs :
       apps' = IF r.application_id \in DOMAIN apps
               THEN [apps EXCEPT ![r.application_id] =
                       decided_row(@, r.decision_type, "see notes", r.file, iv)]
               ELSE apps
  /\ Goto(t, "notify")
  /\ UNCHANGED <<service, admin, docs, students, ledger, notifications, nextAppId, nextDocId,
                 resp, faults>>

\* SELECT app_info and the INSERTs INTO notifications
decision_notify(t) ==
  LET r == threads[t] IN
  /\ r.pc = "notify" /\ r.op = "decide"
  /\ notifications' =
       IF r.application_id \in DOMAIN apps
       THEN decision_notifications(notifications, apps[r.application_id],
                                   r.decision_type, r.u)
       ELSE notifications
  /\ Goto(t, "audit")
  /\ UNCHANGED <<service, admin, apps, docs, students, ledger, nextAppId, nextDocId, resp, faults>>

\* INSERT INTO audit_logs, then the 200
decision_audit(t) ==
  LET r == threads[t] IN
  /\ r.pc = "audit" /\ r.op = "decide"
  /\ ledger' = audit(ledger, r.u, "Decision: " \o r.decision_type,
                     "applications", r.application_id)
  /\ Done(t, 200)
  /\ UNCHANGED <<service, admin, apps, docs, students, notifications, nextAppId, nextDocId,
                 resp, faults>>

\* The requests the threads carry, and the document requests that run
\* (each start to end) between their statements.
ConcDecisions == {
  [type |-> "Accepted",
   file |-> [filename |-> <<"o", ".", "p", "d", "f">>, content |-> PdfBytes]],
  [type |-> "Rejected", file |-> NoFile]}

ConcNext ==
  \/ \E u \in {3, 4} : start_forward(1, u, 1)
  \/ \E t \in Threads, k \in ConcDecisions : start_decision(t, 5, 1, k.type, k.file)
  \/ \E t \in Threads : forward_read_application(t)
  \/ \E t \in Threads : forward_read_documents(t)
  \/ \E t \in Threads : forward_update(t)
  \/ \E t \in Threads : forward_notify(t)
  \/ \E t \in Threads : forward_audit(t)
  \/ \E t \in Threads : decision_read_application(t)
  \/ \E t \in Threads : decision_read_documents(t)
  \/ \E t \in Threads : decision_update(t)
  \/ \E t \in Threads : decision_notify(t)
  \/ \E t \in Threads : decision_audit(t)
  \/ \E d \in DocIds, x \in Actions : verify_document(3, d, x, FALSE)
  \/ upload_document(8, "Passport", 1, 1, FALSE)
  \/ \E d \in DocIds : delete_document(8, d, FALSE)

ConcInit ==
  \E s \in Snapshots :
     s.app /\ s.v = "true" /\ InitSnapshot(s) /\ file_data = <<>>

ConcSpec == ConcInit /\ [][ConcNext]_vars

\* ------------------------------------------- user and university routes
\* The request's role is the role_id of its token (token_required), which
\* role_id(u) stands for; the users table is read and written below.
MaxUsers == 10

EmailInputs == {NULL, 5, 10}

FullNames == {"", "n"}

RoleInputs == {NULL, Counsellor, UniversityStaff}

UniversityInputs == {NULL, 1, 3}

UserInputs == {1, 3, 5, 8, 10}

UpdateInputs == {3, 5, 10}

AdminActors == {1, 2, 3}

\* POST /api/users: role_required(1, 2); the name and the password are given
create_user_code(u, email, role, university_id) ==
  IF role_id(u) \notin {SuperAdmin, Admin} THEN 403
  ELSE IF email = NULL \/ role = NULL THEN 400
  ELSE IF role = UniversityStaff /\ university_id = NULL THEN 400
  ELSE IF \E i \in DOMAIN accounts : accounts[i].email = email THEN 400
  ELSE 201

\* INSERT INTO users; for University Staff the two UPDATEs of universities
\* (the university's portal_user_id is cleared, then set to the new user: of
\* a university that does not exist no row is updated); the audit INSERT.
create_user(u, email, role, university_id) ==
  /\ Budget
  /\ nextUserId <= MaxUsers
  /\ LET code == create_user_code(u, email, role, university_id) IN
     IF code # 201 THEN Fail("create_user", code, u, NULL)
     ELSE
       /\ accounts' = [i \in DOMAIN accounts \cup {nextUserId} |->
                         IF i = nextUserId
                         THEN [role_id |-> role, email |-> email,
                               is_active |-> TRUE]
                         ELSE accounts[i]]
       /\ nextUserId' = nextUserId + 1
       /\ portal_users' =
            IF role = UniversityStaff
            THEN [v \in DOMAIN portal_users |->
                    IF v = university_id THEN nextUserId ELSE portal_users[v]]
            ELSE portal_users
       /\ ledger' = audit(ledger, u, "Create User", "users", nextUserId)
       /\ respond("create_user", 201, u, NULL)
       /\ UNCHANGED <<service, apps, docs, students, notifications, nextAppId,
                      nextDocId, faults, threads>>

\* PUT /api/users/<id>: role_required(1, 2)
update_user_code(u, user_id, full_name, email, role) ==
  IF role_id(u) \notin {SuperAdmin, Admin} THEN 403
  ELSE IF user_id \notin DOMAIN accounts THEN 404
  ELSE IF /\ email # NULL
          /\ email # accounts[user_id].email
          /\ \E i \in DOMAIN accounts \ {user_id} : accounts[i].email = email
       THEN 400
  ELSE IF full_name = "" /\ email = NULL /\ role = NULL THEN 400
  ELSE 200

\* UPDATE users; with role_id 4 and a university the user's former binding
\* and the university's former binding are cleared and the new one is set,
\* with another role the user's binding is cleared; the audit INSERT.
update_user(u, user_id, full_name, email, role, university_id) ==
  /\ Budget
  /\ LET code == update_user_code(u, user_id, full_name, email, role) IN
     IF code # 200 THEN Fail("update_user", code, u, user_id)
     ELSE
       /\ accounts' = [accounts EXCEPT ![user_id] =
                         [@ EXCEPT !.email = IF email # NULL THEN email ELSE @,
                                   !.role_id = IF role # NULL THEN role ELSE @]]
       /\ portal_users' =
            IF role = UniversityStaff /\ university_id # NULL
            THEN [v \in DOMAIN portal_users |->
                    IF v = university_id THEN user_id
                    ELSE IF portal_users[v] = user_id THEN NULL
                    ELSE portal_users[v]]
            ELSE IF role # NULL /\ role # UniversityStaff
            THEN [v \in DOMAIN portal_users |->
                    IF portal_users[v] = user_id THEN NULL ELSE portal_users[v]]
            ELSE portal_users
       /\ ledger' = audit(ledger, u, "Update User", "users", user_id)
       /\ respond("update_user", 200, u, user_id)
       /\ UNCHANGED <<service, apps, docs, students, notifications, nextAppId,
                      nextDocId, nextUserId, faults, threads>>

\* DELETE /api/universities/<id>/delete: role_required(1, 2)
delete_university_code(u, university_id) ==
  IF role_id(u) \notin {SuperAdmin, Admin} THEN 403
  ELSE IF university_id \notin DOMAIN portal_users THEN 404
  ELSE 200

\* The bound University Staff account is deactivated, the binding cleared
\* and the universities row deleted; the audit INSERT comes last.
delete_university(u, university_id) ==
  /\ Budget
  /\ LET code == delete_university_code(u, university_id) IN
     IF code # 200 THEN Fail("delete_university", code, u, university_id)
     ELSE
       LET staff == portal_users[university_id] IN
       /\ accounts' = [i \in DOMAIN accounts |->
                         IF i = staff /\ accounts[i].role_id = UniversityStaff
                         THEN [accounts[i] EXCEPT !.is_active = FALSE]
                         ELSE accounts[i]]
       /\ portal_users' = [v \in DOMAIN portal_users \ {university_id} |->
                             portal_users[v]]
       /\ ledger' = audit(ledger, u, "Delete University", "universities",
                          university_id)
       /\ respond("delete_university", 200, u, university_id)
       /\ UNCHANGED <<service, apps, docs, students, notifications, nextAppId,
                      nextDocId, nextUserId, faults, threads>>

\* DELETE /api/users/<id>/delete: role_required(1); the account named is
\* not the caller's and exists.
delete_user_code(u, user_id) ==
  IF role_id(u) # SuperAdmin THEN 403
  ELSE IF user_id = u THEN 400
  ELSE IF user_id \notin DOMAIN accounts THEN 404
  ELSE 200

\* SELECT delete_user_with_cleanup(user_id), a function of the database:
\* what it leaves of audit_logs (entries are never updated or deleted),
cleanup_audit_logs(log, user_id) == log

\* of users,
cleanup_users(user_id) ==
  [i \in DOMAIN accounts \ {user_id} |-> accounts[i]]

\* of universities (the binding of the account goes with it),
cleanup_universities(user_id) ==
  [v \in DOMAIN portal_users |->
     IF portal_users[v] = user_id THEN NULL ELSE portal_users[v]]

\* of students (the references to the account as assigned staff are
\* cleared; the row of a student's own account is given up, user_id NULL),
cleanup_students(user_id) ==
  [i \in StudentIds |->
     [students[i] EXCEPT
        !.user_id = IF @ = user_id THEN NULL ELSE @,
        !.assigned_counsellor_id = IF @ = user_id THEN NULL ELSE @,
        !.assigned_logistics_id = IF @ = user_id THEN NULL ELSE @]]

\* of applications and of documents (those of the student go with the
\* student, cascading).
cleanup_applications(user_id) ==
  [a \in {x \in DOMAIN apps : students[apps[x].student_id].user_id # user_id} |->
     [apps[a] EXCEPT !.counsellor_id = IF @ = user_id THEN NULL ELSE @]]

cleanup_documents(user_id) ==
  [d \in {x \in DOMAIN docs : students[docs[x].student_id].user_id # user_id} |->
     docs[d]]

\* The audit INSERT, committed, and then the cleanup.
delete_user(u, user_id) ==
  /\ Budget
  /\ LET code == delete_user_code(u, user_id) IN
     IF code # 200 THEN Fail("delete_user", code, u, user_id)
     ELSE
       /\ ledger' = cleanup_audit_logs(
                      audit(ledger, u, "Delete User", "users", user_id), user_id)
       /\ accounts' = cleanup_users(user_id)
       /\ portal_users' = cleanup_universities(user_id)
       /\ students' = cleanup_students(user_id)
       /\ apps' = cleanup_applications(user_id)
       /\ docs' = cleanup_documents(user_id)
       /\ respond("delete_user", 200, u, user_id)
       /\ UNCHANGED <<service, notifications, nextAppId, nextDocId, nextUserId, faults,
                      threads>>

\* The workflow handlers above read the users and the universities they
\* were given (role, existence); they are followed while those rows stand.
Roster ==
  /\ DOMAIN portal_users = UniversityIds
  /\ \A i \in UserIds :
       /\ i \in DOMAIN accounts
       /\ accounts[i].role_id = users[i]
       /\ accounts[i].is_active

AdminRequests ==
  \/ \E u \in AdminActors, e \in EmailInputs, r \in RoleInputs,
        v \in UniversityInputs : create_user(u, e, r, v)
  \/ \E u \in AdminActors, i \in UpdateInputs, n \in FullNames,
        e \in EmailInputs \ {10}, r \in RoleInputs, v \in UniversityInputs :
        update_user(u, i, n, e, r, v)
  \/ \E u \in AdminActors, v \in UniversityInputs \ {NULL} :
        delete_university(u, v)
  \/ \E u \in AdminActors, i \in UserInputs : delete_user(u, i)

NextAdmin ==
  \/ Roster /\ NextDownload
  \/ AdminRequests

AdminSpec == Init /\ [][NextAdmin]_vars

\* ------------------------------------------- download_conditional_offer
\* GET /api/applications/<id>/conditional-offer: token_required only.
offer_code(u, application_id) ==
  IF application_id \notin DOMAIN apps THEN 404
  ELSE IF Len(apps[application_id].offer.blob) = 0 THEN 404
  ELSE
    LET app == apps[application_id] IN
    IF \/ role_id(u) \in {SuperAdmin, Admin}
       \/ role_id(u) = Student /\ students[app.student_id].user_id = u
       \/ role_id(u) = Counsellor
            /\ students[app.student_id].assigned_counsellor_id = u
       \/ role_id(u) = UniversityStaff
            /\ university_of(u) # NULL /\ university_of(u) = app.university_id
    THEN 200 ELSE 403

\* send_file(io.BytesIO(decrypted_content), ...): the 200 carries the bytes
send_file(op, body) ==
  resp' = [op |-> op, code |-> 200, role |-> NULL, target |-> NULL,
           body |-> body]

\* The stored offer letter is decrypted, the download is written to
\* audit_logs and the bytes are sent.
download_conditional_offer(u, application_id) ==
  /\ Budget
  /\ LET code == offer_code(u, application_id) IN
     IF code # 200 THEN Fail("offer", code, u, application_id)
     ELSE
       /\ ledger' = audit(ledger, u, "Download Conditional Offer",
                          "applications", application_id)
       /\ send_file("offer",
                    decrypt_document(apps[application_id].offer.blob,
                                     apps[application_id].offer.iv))
       /\ UNCHANGED <<service, admin, apps, docs, students, notifications, nextAppId,
                      nextDocId, faults, threads>>

\* the workflow routes together with the offer-letter download
NextOffer ==
  \/ Next
  \/ \E u \in UserIds, a \in AppIds : download_conditional_offer(u, a)

OfferSpec == Init /\ [][NextOffer]_vars

\* unverified_docs of make_decision over the fold w
unverified_docs(w) ==
  {docs[d].doc_type : d \in {x \in w : docs[x].uni_verified # "true"}}

\* create_user, update_user and delete_university alone
NextBinding ==
  \/ \E u \in AdminActors, e \in EmailInputs, r \in RoleInputs,
        v \in UniversityInputs : create_user(u, e, r, v)
  \/ \E u \in AdminActors, i \in UpdateInputs, n \in FullNames,
        e \in EmailInputs \ {10}, r \in RoleInputs, v \in UniversityInputs :
        update_user(u, i, n, e, r, v)
  \/ \E u \in AdminActors, v \in UniversityInputs \ {NULL} :
        delete_university(u, v)

BindingSpec == Init /\ [][NextBinding]_vars

\* ------------------------------------------------- the vault on its own
\* encrypt_document and decrypt_document applied to byte payloads: empty,
\* shorter than a block, exactly one block, one byte more, two blocks and
\* more.  A payload is filled with zeros, with ones (its last byte reads as
\* a one-byte padding) or with bytes that differ from place to place.
MaxStored == 2

PayloadLens == {0, 1, 15, 16, 17, 32, 33}

Payloads ==
  UNION {{[i \in 1..n |-> 0], [i \in 1..n |-> 1], [i \in 1..n |-> (i * 37) % 256]} :
           n \in PayloadLens}

\* one call of encrypt_document(file_data): it draws its own IV
vault_encrypt ==
  /\ Len(stored) < MaxStored
  /\ \E iv \in IVs : stored' = Append(stored, encrypt_document(file_data, iv))
  /\ UNCHANGED <<db, admin, resp, faults, threads, tokens, sockets,
                 connected_users, file_data, decrypted>>

\* one call of decrypt_document on what an earlier call returned
vault_decrypt ==
  /\ \E k \in DOMAIN stored :
        decrypted' = [done |-> TRUE,
                      data |-> decrypt_document(stored[k].blob, stored[k].iv)]
  /\ UNCHANGED <<db, admin, resp, faults, threads, tokens, sockets,
                 connected_users, file_data, stored>>

VaultInit == InitSnapshot(CHOOSE s \in Snapshots : ~s.app) /\ file_data \in Payloads

NextVault == vault_encrypt \/ vault_decrypt

VaultSpec == VaultInit /\ [][NextVault]_vars

\* ------------------------------------------------------- bearer tokens
\* AuthService.generate_token signs {user_id, role_id}; verify_token checks
\* the signature and the expiry and nothing else, and token_required copies
\* the payload's user_id and role_id into the request.  A token is valid
\* iff it was issued: `tokens` holds the payloads issued so far.
ResetRole == 0

TokenUsers == {3, 7, 8}

\* emails of TokenUsers (an account's email is its id) and an unknown one
LoginEmails == TokenUsers \cup {11}

\* the payloads a request may present: those login or forgot_password can
\* issue to TokenUsers, and one that is never issued
TokenInputs ==
  {[user_id |-> u, role_id |-> r] : u \in TokenUsers, r \in 0..6}

account_of(email) ==
  IF \E i \in DOMAIN accounts : accounts[i].email = email
  THEN CHOOSE i \in DOMAIN accounts : accounts[i].email = email
  ELSE NULL

\* a response without a body that is no refusal of a workflow route
answer(op, code) ==
  resp' = [op |-> op, code |-> code, role |-> NULL, target |-> NULL]

\* jsonify({...: rows}), 200
jsonify(op, body) ==
  resp' = [op |-> op, code |-> 200, role |-> NULL, target |-> NULL,
           body |-> body]

\* POST /api/auth/login
login(email, password_ok) ==
  /\ Budget
  /\ LET user == account_of(email) IN
     IF user = NULL \/ ~accounts[user].is_active
     THEN answer("login", 401) /\ UNCHANGED <<db, admin, service, faults, threads>>
     ELSE IF ~password_ok
     THEN /\ ledger' = audit(ledger, user, "Failed Login", "users", user)
          /\ answer("login", 401)
          /\ UNCHANGED <<admin, service, apps, docs, students, notifications,
                         nextAppId, nextDocId, faults, threads>>
     ELSE /\ tokens' = tokens \cup {[user_id |-> user,
                                     role_id |-> accounts[user].role_id]}
          /\ ledger' = audit(ledger, user, "Login", "users", user)
          /\ answer("login", 200)
          /\ UNCHANGED <<admin, apps, docs, students, notifications, nextAppId,
                         nextDocId, faults, threads, sockets, connected_users,
                         file_data, stored, decrypted>>

\* POST /api/auth/forgot-password: the reset token is a token of the same
\* kind with role_id 0, mailed to the account's address
forgot_password(email) ==
  /\ Budget
  /\ LET user == account_of(email) IN
     IF user = NULL
     THEN answer("forgot_password", 200)
          /\ UNCHANGED <<db, admin, service, faults, threads>>
     ELSE /\ tokens' = tokens \cup {[user_id |-> user, role_id |-> ResetRole]}
          /\ ledger' = audit(ledger, user, "Password Reset Request", "users", user)
          /\ answer("forgot_password", 200)
          /\ UNCHANGED <<admin, apps, docs, students, notifications, nextAppId,
                         nextDocId, faults, threads, sockets, connected_users,
                         file_data, stored, decrypted>>

\* token_required: 401 unless the token verifies
token_required(token) == token \in tokens

\* a.status LIKE 'Decision:%'
like_decision(status) ==
  status \in {"Decision: Accepted", "Decision: Rejected", "Decision: Conditional"}

\* the SELECT of get_applications by role; the last branch (else) serves
\* every role_id that is not 6, 3 or 4
applications_of(role, u) ==
  IF role = Student THEN
    IF student_of(u) = NULL THEN {}
    ELSE {a \in DOMAIN apps : apps[a].student_id = student_of(u)}
  ELSE IF role = Counsellor THEN
    {a \in DOMAIN apps :
       \/ apps[a].counsellor_id = u
       \/ students[apps[a].student_id].assigned_counsellor_id = u}
  ELSE IF role = UniversityStaff THEN
    IF university_of(u) = NULL THEN {}
    ELSE {a \in DOMAIN apps : apps[a].university_id = university_of(u)}
  ELSE DOMAIN apps

\* the SELECT of get_documents by role, with the same last branch
documents_of(role, u) ==
  IF role = Student THEN
    IF student_of(u) = NULL THEN {}
    ELSE {d \in DOMAIN docs : docs[d].student_id = student_of(u)}
  ELSE IF role = Counsellor THEN
    {d \in DOMAIN docs : students[docs[d].student_id].assigned_counsellor_id = u}
  ELSE IF role = UniversityStaff THEN
    IF university_of(u) = NULL THEN {}
    ELSE {d \in DOMAIN docs :
            /\ docs[d].application_id \in DOMAIN apps
            /\ LET a == apps[docs[d].application_id] IN
               /\ a.university_id = university_of(u)
               /\ a.status = "Forwarded to University" \/ like_decision(a.status)}
  ELSE DOMAIN docs

\* GET /api/applications
get_applications(token) ==
  /\ IF ~token_required(token) THEN answer("get_applications", 401)
     ELSE jsonify("get_applications",
                  applications_of(token.role_id, token.user_id))
  /\ UNCHANGED <<db, admin, service, faults, threads>>

\* GET /api/documents
get_documents(token) ==
  /\ IF ~token_required(token) THEN answer("get_documents", 401)
     ELSE jsonify("get_documents", documents_of(token.role_id, token.user_id))
  /\ UNCHANGED <<db, admin, service, faults, threads>>

\* GET /api/documents/<id>/download with the bearer token it is sent
download_with_token(token, document_id) ==
  /\ Budget
  /\ IF ~token_required(token)
     THEN answer("download", 401) /\ UNCHANGED <<db, admin, service, faults, threads>>
     ELSE
       LET code == download_access(token.role_id, token.user_id, document_id) IN
       IF code # 200
       THEN /\ resp' = [op |-> "download", code |-> code,
                        role |-> token.role_id, target |-> document_id]
            /\ UNCHANGED <<db, admin, service, faults, threads>>
       ELSE /\ ledger' = audit(ledger, token.user_id, "Download Document",
                               "documents", document_id)
            /\ answer("download", 200)
            /\ UNCHANGED <<admin, service, apps, docs, students, notifications,
                           nextAppId, nextDocId, faults, threads>>

NextToken ==
  \/ \E email \in LoginEmails, password_ok \in BOOLEAN : login(email, password_ok)
  \/ \E email \in LoginEmails : forgot_password(email)
  \/ \E token \in TokenInputs : get_applications(token)
  \/ \E token \in TokenInputs : get_documents(token)
  \/ \E token \in TokenInputs, d \in DocIds : download_with_token(token, d)

TokenSpec == Init /\ [][NextToken]_vars

\* ------------------------------------------------------ Socket.IO events
\* connected_users is a dict: user_id -> sid, kept here in its insertion
\* order (the order handle_disconnect walks it in).  A socket's rooms are
\* the users whose personal room it joined; the server drops a socket from
\* its rooms when it disconnects.
online == {connected_users[i].user_id : i \in DOMAIN connected_users}

sid_of(user_id) ==
  connected_users[CHOOSE i \in DOMAIN connected_users :
                    connected_users[i].user_id = user_id].sid

\* the server hands a new connection the next session id
handle_connect(sid) ==
  /\ sockets[sid].state = "new"
  /\ \A other \in Sids : other < sid => sockets[other].state # "new"
  /\ sockets' = [sockets EXCEPT ![sid].state = "live"]
  /\ UNCHANGED <<db, admin, resp, faults, threads, tokens, connected_users,
                 file_data, stored, decrypted>>

\* connected_users[user_id] = request.sid; join_room(f"user_{user_id}")
handle_authenticate(sid, token) ==
  /\ sockets[sid].state = "live"
  /\ IF token \notin tokens
     THEN UNCHANGED <<sockets, connected_users>>
     ELSE
       /\ connected_users' =
            IF token.user_id \in online
            THEN [i \in DOMAIN connected_users |->
                    IF connected_users[i].user_id = token.user_id
                    THEN [user_id |-> token.user_id, sid |-> sid]
                    ELSE connected_users[i]]
            ELSE Append(connected_users, [user_id |-> token.user_id, sid |-> sid])
       /\ sockets' = [sockets EXCEPT ![sid].rooms = @ \cup {token.user_id}]
  /\ UNCHANGED <<db, admin, resp, faults, threads, tokens, file_data, stored,
                 decrypted>>

\* the first user found on request.sid is deleted, and no other
handle_disconnect(sid) ==
  /\ sockets[sid].state = "live"
  /\ LET found == {i \in DOMAIN connected_users : connected_users[i].sid = sid} IN
     connected_users' =
       IF found = {} THEN connected_users
       ELSE LET first == CHOOSE i \in found : \A j \in found : i <= j
            IN  SubSeq(connected_users, 1, first - 1)
                  \o SubSeq(connected_users, first + 1, Len(connected_users))
  /\ sockets' = [sockets EXCEPT ![sid] = [state |-> "closed", rooms |-> {}]]
  /\ UNCHANGED <<db, admin, resp, faults, threads, tokens, file_data, stored,
                 decrypted>>

\* handle_send_message: new_message goes to room connected_users[receiver_id]
\* if receiver_id is in connected_users, and reaches a socket if that
\* session is still connected
delivered_to(receiver_id) ==
  IF receiver_id \in online /\ sockets[sid_of(receiver_id)].state = "live"
  THEN {sid_of(receiver_id)} ELSE {}

ChatInit == InitSnapshot(CHOOSE s \in Snapshots : ~s.app) /\ file_data = <<>>

NextChat ==
  \/ \E email \in LoginEmails : login(email, TRUE)
  \/ \E sid \in Sids : handle_connect(sid)
  \/ \E sid \in Sids, token \in TokenInputs : handle_authenticate(sid, token)
  \/ \E sid \in Sids : handle_disconnect(sid)

ChatSpec == ChatInit /\ [][NextChat]_vars

\* ================================================================ claims
ThePdf == [filename |-> <<"o", ".", "P", "d", "f">>, content |-> PdfBytes]

RefusalCodes == {400, 403, 404}

\* C1: a forward request by an authorized actor succeeds iff every required
\* type is present and every document row of the application is stage-1
\* approved; a refused forward changes nothing.
C1_ForwardIffEveryRowApproved ==
  [][\A u \in UserIds, a \in AppIds :
       (forward_access(u, a) = 200 /\ forward_application(u, a, FALSE))
         => /\ (resp'.code = 200) <=> AllApproved1(a)
            /\ resp'.code # 200 => UNCHANGED db]_vars

\* C2: decide(Accepted | Conditional) by University Staff with a PDF offer
\* letter succeeds iff the application is forwarded, belongs to the actor's
\* university, has every required type and every row stage-2 approved.
C2_StaffAcceptIffEveryRowApproved ==
  [][\A u \in UserIds, a \in AppIds, k \in {"Accepted", "Conditional"}, n \in Notes :
       (role_id(u) = UniversityStaff /\ make_decision(u, a, k, n, ThePdf, FALSE))
         => ((resp'.code = 200) <=>
               /\ a \in DOMAIN apps
               /\ apps[a].status = "Forwarded to University"
               /\ apps[a].university_id = university_of(u)
               /\ AllApproved2(a))]_vars

\* C3: every document whose stage-2 outcome is approved or rejected has
\* stage-1 outcome approved.
C3_Stage2OnlyAfterStage1 ==
  \A d \in DOMAIN docs :
    docs[d].uni_verified # "null" => docs[d].verified = "true"

DecisionStatuses ==
  {"Decision: Accepted", "Decision: Rejected", "Decision: Conditional",
   "Missing Documents - In Review"}

\* C4: an application's decision record is set only if its status begins
\* with "Decision:" or is "Missing Documents - In Review".
C4_DecisionOnlyInDecisionStatus ==
  \A a \in DOMAIN apps :
    (\/ apps[a].decision_type # "null"
     \/ apps[a].decision_notes # "null"
     \/ apps[a].decision_date # "null") => apps[a].status \in DecisionStatuses

\* C5: two concurrent decide requests of University Staff on one forwarded
\* application never both report success: the second fails, or re-evaluates
\* against the status the first has written (and is then refused).
C5_ConcurrentDecisionsSerialize ==
  ~(\E t1, t2 \in Threads :
      /\ t1 # t2
      /\ threads[t1].op = "decide" /\ threads[t2].op = "decide"
      /\ threads[t1].application_id = threads[t2].application_id
      /\ threads[t1].pc = "done" /\ threads[t2].pc = "done"
      /\ threads[t1].code = 200 /\ threads[t2].code = 200)

\* C6: when the status write of forward takes effect, every required type
\* is still present and every row still stage-1 approved, if they were when
\* forward read the documents.
C6_ForwardAtomicWithDocuments ==
  [][\A t \in Threads :
       (forward_update(t) /\ threads[t].gate)
         => AllApproved1(threads[t].application_id)]_vars

StateMutated ==
  \/ \E a \in DOMAIN apps \cap DOMAIN apps' : apps'[a].status # apps[a].status
  \/ \E d \in DOMAIN docs \cap DOMAIN docs' :
       \/ docs'[d].verified # docs[d].verified
       \/ docs'[d].uni_verified # docs[d].uni_verified
  \/ \E i \in StudentIds :
       \/ students'[i].assigned_counsellor_id # students[i].assigned_counsellor_id
       \/ students'[i].assigned_logistics_id # students[i].assigned_logistics_id

LedgerGrewByOne ==
  /\ ledger \sqsubseteq ledger'
  /\ BagCardinality(ledger') = BagCardinality(ledger) + 1

\* C7: no application status, document stage outcome or student assignment
\* changes without a ledger entry, also when the ledger write fails, and a
\* failed ledger write is not reported as success.
C7_NoStateChangeWithoutLedgerEntry ==
  [][/\ StateMutated => LedgerGrewByOne
     /\ resp'.code \in {200, 201} => ledger' # ledger]_vars

\* C8: every successful state-mutating operation appends exactly one ledger
\* entry, of its own kind, before it reports success.
OwnEntry(op, e) ==
  CASE op = "create" -> e.action = "Create Application"
    [] op = "forward" -> e.action = "Forward Application to University"
    [] op = "decide" -> e.action \in {"Decision: " \o k : k \in DecisionTypes}
    [] op = "status" ->
         e.action \in {"Update Application Status: " \o k : k \in StatusInputs}
    [] op = "delete_application" -> e.action = "Delete Application"
    [] op = "upload" -> e.action = "Upload Document"
    [] op = "verify" ->
         e.action \in {"Approve Document (Stage 1 (Counsellor))",
                       "Reject Document (Stage 1 (Counsellor))",
                       "Approve Document (Stage 2 (University))",
                       "Reject Document (Stage 2 (University))"}
    [] op = "delete_document" -> e.action = "Delete Document"
    [] op = "assign" -> e.action = "Assign Counsellor"
    [] op = "reassign" ->
         e.action \in {"Assign Counsellor", "Reassign Counsellor",
                       "Unassign Counsellor"}
    [] op = "logistics" ->
         e.action \in {"Assign Logistics", "Reassign Logistics",
                       "Unassign Logistics"}
    [] OTHER -> FALSE

C8_SuccessAppendsOneEntry ==
  [][resp'.code \in {200, 201} =>
       /\ LedgerGrewByOne
       /\ \E e \in BagToSet(ledger') :
            /\ ledger' = ledger (+) SetToBag({e})
            /\ OwnEntry(resp'.op, e)]_vars

C8_Witness ==
  /\ resp.op = "forward" /\ resp.code = 200
  /\ BagIn([action |-> "Forward Application to University",
            target_table |-> "applications", target_id |-> 1], ledger)
  /\ apps[1].status = "Forwarded to University"

\* C9: a review that would set the stage-2 outcome of a document whose
\* stage-1 outcome is pending or rejected is refused, whatever the role, and
\* no review of such a document changes its stage-2 record.
C9_Stage2ReviewNeedsStage1 ==
  [][\A u \in UserIds, d \in DOMAIN docs, x \in Actions :
       (docs[d].verified # "true" /\ verify_document(u, d, x, FALSE))
         => /\ d \in DOMAIN docs'
            /\ docs'[d].uni_verified = docs[d].uni_verified
            /\ role_id(u) \notin {SuperAdmin, Admin, Counsellor}
                 => (resp'.code \in RefusalCodes /\ UNCHANGED db)]_vars

\* University Staff of the application's university was refused the review
\* of a stage-1 rejected document of a forwarded application.
C9_Witness ==
  /\ resp.op = "verify" /\ resp.code = 403 /\ resp.role = UniversityStaff
  /\ resp.target \in DOMAIN docs
  /\ docs[resp.target].verified = "false"
  /\ docs[resp.target].uni_verified = "null"
  /\ apps[docs[resp.target].application_id].status = "Forwarded to University"
  /\ apps[docs[resp.target].application_id].university_id = 1

\* C10: decide(Accepted | Conditional) without an offer letter, with an
\* empty one or with one that is no PDF is refused, whatever the role, and
\* changes nothing.
BadOfferLetters == {f \in Files : ~file_truthy(f) \/ Len(f.content) = 0
                                   \/ ~is_pdf_name(f.filename)}

C10_BadOfferLetterRefused ==
  [][\A u \in UserIds, a \in AppIds, k \in {"Accepted", "Conditional"},
        n \in Notes, f \in BadOfferLetters :
       make_decision(u, a, k, n, f, FALSE)
         => (resp'.code \in RefusalCodes /\ UNCHANGED db)]_vars

\* C11: decide(Rejected | Missing Documents) by University Staff on a
\* forwarded application of their university that has every required type
\* succeeds iff no document row of the application is stage-2 pending.
C11_StaffRejectIffNoRowPending ==
  [][\A u \in UserIds, a \in AppIds, k \in {"Rejected", "Missing Documents"},
        n \in Notes, f \in Files :
       (/\ role_id(u) = UniversityStaff
        /\ a \in DOMAIN apps
        /\ apps[a].status = "Forwarded to University"
        /\ apps[a].university_id = university_of(u)
        /\ required_docs \subseteq {docs[d].doc_type : d \in Rows(a)}
        /\ make_decision(u, a, k, n, f, FALSE))
         => ((resp'.code = 200) <=>
               \A d \in Rows(a) : docs[d].uni_verified # "null")]_vars

DecisionFields(app) ==
  <<app.status, app.decision_type, app.decision_notes, app.decision_date>>

\* C12: once an application is "Decision: Accepted" or "Decision: Rejected",
\* no forward and no decide of University Staff changes its status or its
\* decision fields.
C12_AcceptedRejectedTerminal ==
  [][\A a \in DOMAIN apps :
       (/\ apps[a].status \in {"Decision: Accepted", "Decision: Rejected"}
        /\ \/ \E u \in UserIds : forward_application(u, a, FALSE)
           \/ \E u \in UserIds, k \in DecisionInputs, n \in Notes, f \in Files :
                /\ role_id(u) = UniversityStaff
                /\ make_decision(u, a, k, n, f, FALSE))
         => /\ a \in DOMAIN apps'
            /\ DecisionFields(apps'[a]) = DecisionFields(apps[a])]_vars

\* C13: a successful forward sets the status to "Forwarded to University",
\* and from "Decision: Conditional" or "Missing Documents - In Review" it
\* also clears decision_type, decision_notes and decision_date.
C13_ForwardSetsStatusAndClearsDecision ==
  [][\A u \in UserIds, a \in AppIds :
       (forward_application(u, a, FALSE) /\ resp'.code = 200)
         => /\ a \in DOMAIN apps /\ a \in DOMAIN apps'
            /\ apps'[a].status = "Forwarded to University"
            /\ apps[a].status \in {"Decision: Conditional",
                                   "Missing Documents - In Review"}
                 => /\ apps'[a].decision_type = "null"
                    /\ apps'[a].decision_notes = "null"
                    /\ apps'[a].decision_date = "null"]_vars

\* A conditionally accepted application was forwarded again and now carries
\* no decision record.
C13_Witness ==
  /\ resp.op = "forward" /\ resp.code = 200
  /\ 1 \in DOMAIN apps
  /\ apps[1].status = "Forwarded to University"
  /\ apps[1].decision_type = "null" /\ apps[1].decision_date = "null"
  /\ BagIn([action |-> "Decision: Conditional", target_table |-> "applications",
            target_id |-> 1], ledger)
  /\ BagIn([user_id |-> 8, title |-> "Application Re-forwarded"], notifications)

\* (The step is a decide of u on a with k: the first two conjuncts repeat
\* what make_decision writes to the response and the ledger, and spare
\* evaluating the handler for the requests that cannot be the step.)
DecideStep(u, a, k, n, f) ==
  /\ resp'.op = "decide"
  /\ IF resp'.code = 200
     THEN BagIn([action |-> "Decision: " \o k, target_table |-> "applications",
                 target_id |-> a], ledger')
     ELSE resp'.role = role_id(u) /\ resp'.target = a
  /\ make_decision(u, a, k, n, f, FALSE)

\* C14: a successful decide sets the status to "Decision: <type>" (for
\* Missing Documents: "Missing Documents - In Review"), records the decision
\* type and notes, and stores the encrypted offer letter with its IV iff an
\* offer letter came with the request; a decision type outside the four is
\* refused and changes nothing.
C14_DecideEffects ==
  [][\A u \in UserIds, a \in AppIds, k \in DecisionInputs, n \in Notes,
        f \in Files :
       DecideStep(u, a, k, n, f)
         => /\ k \notin DecisionTypes
                 => (resp'.code \in RefusalCodes /\ UNCHANGED db)
            /\ resp'.code = 200
                 => /\ a \in DOMAIN apps /\ a \in DOMAIN apps'
                    /\ apps'[a].status =
                         (CASE k = "Accepted" -> "Decision: Accepted"
                            [] k = "Rejected" -> "Decision: Rejected"
                            [] k = "Conditional" -> "Decision: Conditional"
                            [] k = "Missing Documents" ->
                                 "Missing Documents - In Review")
                    /\ apps'[a].decision_type = k
                    /\ apps'[a].decision_notes = n
                    /\ IF f = NoFile
                       THEN apps'[a].offer = apps[a].offer
                       ELSE /\ b64decode(apps'[a].offer.iv) \in IVs
                            /\ apps'[a].offer.filename = f.filename
                            /\ Len(apps'[a].offer.blob) > 0
                            /\ decrypt_document(apps'[a].offer.blob,
                                                apps'[a].offer.iv) = f.content]_vars

\* University Staff asked for missing documents, and a conditional offer was
\* stored before: both status mappings and a stored offer letter.
C14_Witness ==
  /\ resp.op = "decide" /\ resp.code = 200
  /\ 1 \in DOMAIN apps
  /\ apps[1].status = "Missing Documents - In Review"
  /\ apps[1].decision_type = "Missing Documents"
  /\ apps[1].decision_notes = "see notes"
  /\ Len(b64decode(apps[1].offer.blob)) = BlockSize
  /\ decrypt_document(apps[1].offer.blob, apps[1].offer.iv) = PdfBytes

\* C15: a decide of a SuperAdmin or Admin with a valid decision type (and,
\* for Accepted / Conditional, a PDF offer letter) succeeds on an existing
\* application whatever its status, its university and its documents.
C15_AdminDecideBypass ==
  [][\A u \in UserIds, a \in AppIds, k \in DecisionTypes, n \in Notes,
        f \in Files :
       (/\ role_id(u) \in {SuperAdmin, Admin}
        /\ a \in DOMAIN apps
        /\ k \in {"Accepted", "Conditional"}
             => (f # NoFile /\ is_pdf_name(f.filename))
        /\ DecideStep(u, a, k, n, f))
         => resp'.code = 200]_vars

\* An application that was never forwarded, with no document reviewed, was
\* accepted.
C15_Witness ==
  /\ resp.op = "decide" /\ resp.code = 200
  /\ 1 \in DOMAIN apps
  /\ apps[1].status = "Decision: Accepted"
  /\ Rows(1) # {}
  /\ \A d \in Rows(1) : docs[d].verified = "null" /\ docs[d].uni_verified = "null"
  /\ ~BagIn([action |-> "Forward Application to University",
             target_table |-> "applications", target_id |-> 1], ledger)

\* C16: a create request succeeds only for the Student who owns the new
\* application or for the Counsellor assigned to its student; a Counsellor's
\* create for a student not assigned to them creates nothing.
C16_CreateOnlyByOwnerOrAssignedCounsellor ==
  [][\A u \in UserIds, i \in StudentIds, v \in UniversityIds, k \in Intakes :
       (resp'.op = "create" /\ create_application(u, i, v, k, FALSE))
         => /\ resp'.code = 201
                 => /\ nextAppId \in DOMAIN apps'
                    /\ LET owner == apps'[nextAppId].student_id IN
                       \/ role_id(u) = Student /\ students[owner].user_id = u
                       \/ /\ role_id(u) = Counsellor
                          /\ students[owner].assigned_counsellor_id = u
            /\ (role_id(u) = Counsellor /\ students[i].assigned_counsellor_id # u)
                 => (resp'.code # 201 /\ apps' = apps)]_vars

\* X.counsellor = actor or X.student.assignedCounsellor = actor
OwnsAsCounsellor(u, a) ==
  \/ apps[a].counsellor_id = u
  \/ students[apps[a].student_id].assigned_counsellor_id = u

\* C17: in forward and in updateStatus alike, a Counsellor is let through
\* to application X iff they are X's recorded counsellor or the assigned
\* counsellor of X's student.
C17_CounsellorOwnershipEverywhere ==
  [][\A u \in UserIds, a \in DOMAIN apps :
       role_id(u) = Counsellor
         => /\ (resp'.op = "forward" /\ forward_application(u, a, FALSE))
                 => (resp'.code \notin {403, 404} <=> OwnsAsCounsellor(u, a))
            /\ \A s \in StatusInputs \ {""} :
                 (resp'.op = "status" /\ update_application_status(u, a, s, FALSE))
                   => (resp'.code = 200 <=> OwnsAsCounsellor(u, a))]_vars

\* C18: forward is open to SuperAdmin, Admin and Counsellor only, and to a
\* Counsellor only for an application they created or whose student is
\* assigned to them; any other forward is refused and changes nothing.
C18_ForwardOnlyByPermittedActors ==
  [][\A u \in UserIds, a \in AppIds :
       (/\ resp'.op = "forward"
        /\ forward_application(u, a, FALSE)
        /\ ~ \/ role_id(u) \in {SuperAdmin, Admin}
             \/ /\ role_id(u) = Counsellor
                /\ a \in DOMAIN apps
                /\ OwnsAsCounsellor(u, a))
         => (resp'.code \in RefusalCodes /\ UNCHANGED db)]_vars

\* A Counsellor was refused an existing application whose documents are all
\* stage-1 approved: the refusal is the ownership check's.
C18_Witness ==
  /\ resp.op = "forward" /\ resp.code = 404 /\ resp.role = Counsellor
  /\ resp.target \in DOMAIN apps
  /\ apps[resp.target].status = "In Review"
  /\ AllApproved1(resp.target)

\* C19: a stage-2 review (a review by University Staff) succeeds iff the
\* actor is bound to the university of the document's application, the
\* application is "Forwarded to University" or in a state reached by
\* decide, and the document is stage-1 approved; otherwise the document is
\* unchanged.
C19_Stage2ReviewConditions ==
  [][\A u \in UserIds, d \in DOMAIN docs, x \in Actions :
       (/\ role_id(u) = UniversityStaff
        /\ resp'.op = "verify"
        /\ verify_document(u, d, x, FALSE))
         => /\ (resp'.code = 200) <=>
                 /\ docs[d].application_id \in DOMAIN apps
                 /\ apps[docs[d].application_id].university_id = university_of(u)
                 /\ apps[docs[d].application_id].status \in
                      {"Forwarded to University"} \cup DecisionStatuses
                 /\ docs[d].verified = "true"
            /\ resp'.code # 200 => docs' = docs]_vars

\* C20: a document download is served only to the Student who owns the
\* document, to the Counsellor assigned to that student, to University Staff
\* of the application's university while the application is forwarded or
\* decided, and to Admin / SuperAdmin; every other role is denied.
C20_DownloadOnlyToPermittedActors ==
  [][\A u \in UserIds, d \in DocIds :
       (/\ resp'.op = "download"
        /\ download_document(u, d, FALSE)
        /\ resp'.code = 200)
         => /\ d \in DOMAIN docs
            /\ \/ role_id(u) \in {SuperAdmin, Admin}
               \/ /\ role_id(u) = Student
                  /\ students[docs[d].student_id].user_id = u
               \/ /\ role_id(u) = Counsellor
                  /\ students[docs[d].student_id].assigned_counsellor_id = u
               \/ /\ role_id(u) = UniversityStaff
                  /\ docs[d].application_id \in DOMAIN apps
                  /\ apps[docs[d].application_id].university_id = university_of(u)
                  /\ apps[docs[d].application_id].status \in
                       {"Forwarded to University"} \cup DecisionStatuses]_vars

\* C21: a stage-1 review (a review by SuperAdmin, Admin or Counsellor) is
\* let through only for SuperAdmin, Admin and the Counsellor assigned to the
\* document's student, and then sets the stage-1 record of that document
\* only: its stage-2 record, every other document and every application
\* stay as they were.
C21_Stage1ReviewFrame ==
  [][\A u \in UserIds, d \in DocIds, x \in Actions :
       (/\ resp'.op = "verify"
        /\ role_id(u) \in {SuperAdmin, Admin, Counsellor}
        /\ verify_document(u, d, x, FALSE))
         => IF resp'.code = 200
            THEN /\ d \in DOMAIN docs
                 /\ \/ role_id(u) \in {SuperAdmin, Admin}
                    \/ students[docs[d].student_id].assigned_counsellor_id = u
                 /\ docs' = [docs EXCEPT ![d] =
                      [@ EXCEPT !.verified =
                         IF x = "approve" THEN "true" ELSE "false"]]
                 /\ apps' = apps
            ELSE UNCHANGED db]_vars

\* A stage-1 reviewer rejected a document that University
\* Staff had approved: the stage-2 record is as it was.
C21_Witness ==
  /\ resp.op = "verify" /\ resp.code = 200
  /\ 1 \in DOMAIN docs
  /\ docs[1].verified = "false" /\ docs[1].uni_verified = "true"
  /\ BagIn([action |-> "Reject Document (Stage 1 (Counsellor))",
            target_table |-> "documents", target_id |-> 1], ledger)
  /\ \A d \in DOMAIN docs \ {1} : docs[d].verified = "true"

\* C22: an application is deleted only by a SuperAdmin or Admin, or by the
\* Student who owns it while it is "In Review"; every other delete request
\* is refused and leaves the applications, the documents and the ledger as
\* they were.
C22_DeleteOnlyByPermittedActors ==
  [][\A u \in UserIds, a \in AppIds :
       (resp'.op = "delete_application" /\ delete_application(u, a, FALSE))
         => IF /\ a \in DOMAIN apps
               /\ \/ role_id(u) \in {SuperAdmin, Admin}
                  \/ /\ role_id(u) = Student
                     /\ students[apps[a].student_id].user_id = u
                     /\ apps[a].status = "In Review"
            THEN resp'.code = 200 /\ a \notin DOMAIN apps'
            ELSE resp'.code \in RefusalCodes /\ UNCHANGED db]_vars

\* The owning Student was refused the deletion of their forwarded
\* application, which is still there with its documents.
C22_Witness ==
  /\ resp.op = "delete_application" /\ resp.code = 403 /\ resp.role = Student
  /\ resp.target \in DOMAIN apps
  /\ apps[resp.target].status = "Forwarded to University"
  /\ students[apps[resp.target].student_id].user_id = 8
  /\ Rows(resp.target) # {}

\* C23: deleting an application is all-or-nothing: a successful delete
\* leaves neither the application nor any of its documents and has written
\* its "Delete Application" entry; a delete that does not succeed leaves
\* applications, documents and ledger as they were.
C23_DeleteAllOrNothing ==
  [][resp'.op = "delete_application" =>
       IF resp'.code = 200
       THEN \E a \in DOMAIN apps :
              /\ a \notin DOMAIN apps'
              /\ \A d \in DOMAIN docs' : docs'[d].application_id # a
              /\ BagIn([action |-> "Delete Application",
                        target_table |-> "applications", target_id |-> a], ledger')
       ELSE apps' = apps /\ docs' = docs /\ ledger' = ledger]_vars

C25_UploadOnePerPayload ==
  [][resp'.op = "upload" =>
       \A u \in UserIds, t \in UploadTypes, a \in AppIds \cup {NULL},
          n \in 0..MaxFiles :
         upload_document(u, t, a, n, FALSE) =>
           IF resp'.code = 201
           THEN /\ role_id(u) = Student
                /\ a \in DOMAIN apps
                /\ students[apps[a].student_id].user_id = u
                /\ Cardinality(DOMAIN docs' \ DOMAIN docs) = n
                /\ \A d \in DOMAIN docs' \ DOMAIN docs :
                     /\ docs'[d].application_id = a
                     /\ docs'[d].verified = "null"
                     /\ docs'[d].uni_verified = "null"
                /\ \A d \in DOMAIN docs : d \in DOMAIN docs' /\ docs'[d] = docs[d]
           ELSE docs' = docs]_vars

AssignOps == {"assign", "reassign", "logistics"}

\* the notifications of box addressed to user x
NotificationsTo(box, x) ==
  BagCardinality([n \in {m \in BagToSet(box) : m.user_id = x} |-> box[n]])

\* C26: every successful assign, reassign and unassign of a counsellor or of
\* a logistics staff member records one ledger entry about the student and
\* sends exactly one notification to the student, one to the newly assigned
\* staff member and one to the formerly assigned one, and none to anyone
\* else.
C26_AssignmentLedgerAndNotifications ==
  [][(resp'.op \in AssignOps /\ resp'.code = 200) =>
       \E i \in StudentIds :
         LET former == IF resp'.op = "logistics"
                       THEN students[i].assigned_logistics_id
                       ELSE students[i].assigned_counsellor_id
             new == IF resp'.op = "logistics"
                    THEN students'[i].assigned_logistics_id
                    ELSE students'[i].assigned_counsellor_id
             affected == ({former, new} \ {NULL}) \cup {students[i].user_id}
             sent == notifications' (-) notifications
         IN
         /\ \E e \in BagToSet(ledger') :
              /\ e.target_table = "students" /\ e.target_id = i
              /\ ledger' = ledger (+) SetToBag({e})
         /\ notifications (+) sent = notifications'
         /\ \A x \in UserIds :
              NotificationsTo(sent, x) = IF x \in affected THEN 1 ELSE 0]_vars

C27_WitnessRefused ==
  /\ resp.op = "decide" /\ resp.code = 400 /\ resp.role = UniversityStaff
  /\ 1 \in DOMAIN apps
  /\ apps[1].status = "Forwarded to University"
  /\ \A d \in Rows(1) : docs[d].verified = "true" /\ docs[d].uni_verified = "null"

\* C28: a workflow operation that is refused for authorization or
\* validation reasons (wrong role, failed ownership check, invalid decision
\* type, missing offer letter, missing required field) is refused before any
\* mutation: applications, documents, student assignments, the ledger and
\* the notifications are as before it.
C28_RefusedChangesNothing ==
  [][resp'.code \in RefusalCodes =>
       /\ apps' = apps
       /\ docs' = docs
       /\ students' = students
       /\ ledger' = ledger
       /\ notifications' = notifications]_vars

\* A decide without its offer letter (or of no known type) was refused
\* after an earlier operation had been recorded.
C28_Witness ==
  /\ resp.op = "decide" /\ resp.code = 400 /\ resp.role = Admin
  /\ BagCardinality(ledger) = 1
  /\ 1 \in DOMAIN apps

\* a request naming a row that does not exist: refused, by a SuperAdmin's
\* request with not-found (or for a missing field), and nothing changes
NotFoundStep(u) ==
  /\ resp'.code \in RefusalCodes
  /\ role_id(u) = SuperAdmin => resp'.code \in {400, 404}
  /\ UNCHANGED db

\* C29: a workflow operation that names an application, a document or a
\* student that does not exist (updateStatus, forward, delete,
\* assignCounsellor, review, delete of a document) fails with a not-found
\* error and records no state change, no ledger entry and no notification.
C29_MissingEntityNotFound ==
  [][/\ resp'.op = "status" =>
          \A u \in UserIds, a \in AppIds \ DOMAIN apps, s \in StatusInputs :
            update_application_status(u, a, s, FALSE) => NotFoundStep(u)
     /\ resp'.op = "forward" =>
          \A u \in UserIds, a \in AppIds \ DOMAIN apps :
            forward_application(u, a, FALSE) => NotFoundStep(u)
     /\ resp'.op = "delete_application" =>
          \A u \in UserIds, a \in AppIds \ DOMAIN apps :
            delete_application(u, a, FALSE) => NotFoundStep(u)
     /\ resp'.op = "assign" =>
          \A u \in UserIds, i \in StudentInputs \ StudentIds,
             c \in CounsellorInputs :
            assign_counsellor(u, i, c, FALSE) => NotFoundStep(u)
     /\ resp'.op = "verify" =>
          \A u \in UserIds, d \in DocIds \ DOMAIN docs, x \in Actions :
            verify_document(u, d, x, FALSE) => NotFoundStep(u)
     /\ resp'.op = "delete_document" =>
          \A u \in UserIds, d \in DocIds \ DOMAIN docs :
            delete_document(u, d, FALSE) => NotFoundStep(u)]_vars

\* the universities user i is the portal user of
BoundTo(i) == {v \in DOMAIN portal_users : portal_users[v] = i}

\* C30: after any sequence of create_user, update_user and
\* delete_university every user with role University Staff is bound, as
\* portal user, to exactly one university, and no user is bound to two
\* universities (a university has one portal_user_id, hence at most one
\* staff member).
C30_StaffBoundToOneUniversity ==
  \A i \in DOMAIN accounts :
    /\ Cardinality(BoundTo(i)) <= 1
    /\ accounts[i].role_id = UniversityStaff => Cardinality(BoundTo(i)) = 1

\* C31: whatever byte payload is handed to encrypt_document (empty, shorter
\* than a block, a whole number of blocks, or more than one block),
\* decrypt_document of what any call returned gives the payload back byte
\* for byte; and every call returns, next to the cipher text, the base64 of
\* the 16-byte IV it drew itself, whatever the other calls drew.
C31_RoundTrip ==
  /\ decrypted.done => decrypted.data = file_data
  /\ \A k \in DOMAIN stored : b64decode(stored[k].iv) \in IVs

\* a payload of more than two blocks was encrypted twice under different
\* IVs, to different cipher texts, and decrypted
C31_Witness ==
  /\ Len(file_data) = 33
  /\ Len(stored) = 2
  /\ stored[1].iv # stored[2].iv
  /\ stored[1].blob # stored[2].blob
  /\ decrypted.done

\* the empty payload, encrypted twice and decrypted
C31_WitnessEmpty == Len(file_data) = 0 /\ Len(stored) = 2 /\ decrypted.done

\* a payload of exactly one block, encrypted twice under the same IV
C31_WitnessSameIV ==
  /\ Len(file_data) = 16
  /\ Len(stored) = 2
  /\ stored[1].iv = stored[2].iv
  /\ decrypted.done

\* what forward_application answers over the fold w: the status code with
\* missing_documents and unverified_documents
ForwardAnswer(a, w) ==
  [code |-> forward_code(SuperAdmin, a, w),
   missing |-> required_docs \ types_in(w),
   unverified |-> {docs[d].doc_type : d \in {x \in w : docs[x].verified # "true"}}]

\* what make_decision answers to the university's staff member over w
DecisionAnswer(a, decision_type, w) ==
  [code |-> decision_code(apps[a].university_id + 4, a, decision_type, ThePdf, w),
   missing |-> required_docs \ types_in(w),
   unverified |-> unverified_docs(w)]

\* C32: the gating of forward and of decide depends on the set of document
\* rows alone: whichever order the rows of an application come in (whichever
\* row of a type the fold keeps), forward and decide give the same
\* acceptance or refusal and the same list of missing or unverified types.
C32_GatingIsOrderFree ==
  \A a \in DOMAIN apps : \A w1, w2 \in Folds(a) :
     /\ ForwardAnswer(a, w1) = ForwardAnswer(a, w2)
     /\ \A t \in DecisionTypes :
          DecisionAnswer(a, t, w1) = DecisionAnswer(a, t, w2)

\* C33: in every reachable state an application whose status is 'Forwarded
\* to University' has all four required document types and every one of
\* its documents approved at stage 1, whatever forwards, uploads, stage-1
\* reviews, document deletions and status updates came before.
C33_ForwardedMeansApproved ==
  \A a \in DOMAIN apps :
     apps[a].status = "Forwarded to University" => AllApproved1(a)

\* C34: the status of an application becomes a decision status only in a
\* make_decision of a SuperAdmin, an Admin or a University Staff user, and
\* becomes 'Forwarded to University' only in a forward_application whose
\* gating passed; no other request, and none of a Counsellor's but such a
\* forward, moves an application into these statuses.
C34_StatusOnlyThroughItsOperation ==
  [][\A a \in DOMAIN apps :
       (a \in DOMAIN apps' /\ apps'[a].status # apps[a].status)
         => /\ apps'[a].status \in DecisionStatuses
                 => \E u \in UserIds, t \in DecisionInputs, n \in Notes, f \in Files :
                       /\ role_id(u) \in {SuperAdmin, Admin, UniversityStaff}
                       /\ make_decision(u, a, t, n, f, FALSE)
            /\ apps'[a].status = "Forwarded to University"
                 => /\ resp'.op = "forward"
                    /\ \E w \in Folds(a) : forward_code(SuperAdmin, a, w) = 200]_vars

\* the download route would send the offer letter of application a to u
Retrievable(u, a) == offer_code(u, a) = 200

\* C35: an offer letter can be fetched through download_conditional_offer
\* only while the application's current decision type is Accepted or
\* Conditional: after a re-forward, or a later Rejected or Missing Documents
\* decision, no user can fetch the letter of the earlier decision.
C35_OfferOnlyWhileAcceptedOrConditional ==
  \A a \in DOMAIN apps :
     (\E u \in UserIds : Retrievable(u, a))
       => apps[a].decision_type \in {"Accepted", "Conditional"}

\* the request with this token got the application list, the document list
\* or a document
Served(token) ==
  /\ resp'.code = 200
  /\ \/ get_applications(token)
     \/ get_documents(token)
     \/ \E d \in DocIds : download_with_token(token, d)

\* C36: a bearer token gets the application list, the document list or a
\* document only if it carries one of the six roles (it was issued by
\* login); and a token whose role has no branch of its own in these
\* handlers (the password-reset token with role id 0 among them) gets
\* nothing through their last, default branch, which is the Admins'.
C36_OnlyLoginTokensServed ==
  [][\A token \in TokenInputs :
       Served(token)
         => /\ token.role_id \in {SuperAdmin, Admin, Counsellor, UniversityStaff,
                                  LogisticsStaff, Student}
            /\ token.role_id \notin {Student, Counsellor, UniversityStaff}
                 => token.role_id \in {SuperAdmin, Admin}]_vars

\* the ledger gained an entry of this action on this row in the step
Ledgered(action, target_table, target_id) ==
  LET e == [action |-> action, target_table |-> target_table,
            target_id |-> target_id]
  IN  CopiesIn(e, ledger') > CopiesIn(e, ledger)

\* C37: whenever a request stores an application, the ledger gets a 'Create
\* Application' entry on it, and whenever a request stores documents (one
\* file or several), the ledger gets for every one of them an 'Upload
\* Document' entry whose target id is the document's id: no stored row is
\* without its entry.
C37_EveryStoredRowLedgered ==
  [][/\ \A a \in DOMAIN apps' \ DOMAIN apps :
           Ledgered("Create Application", "applications", a)
     /\ \A d \in DOMAIN docs' \ DOMAIN docs :
           Ledgered("Upload Document", "documents", d)]_vars

\* the sockets that authenticated as the user and are still connected
LiveSockets(user_id) ==
  {sid \in Sids : sockets[sid].state = "live" /\ user_id \in sockets[sid].rooms}

\* C38: whatever connects, authentications and disconnects came before, a
\* user is in connected_users iff at least one socket that authenticated as
\* that user is still connected, and the session id the user is mapped to
\* is one of those sockets; so a user authenticated on two sockets is still
\* reached by a message after either of them disconnects.
C38_PresenceMatchesLiveSockets ==
  \A u \in UserIds :
     /\ u \in online <=> LiveSockets(u) # {}
     /\ u \in online => sid_of(u) \in LiveSockets(u)
     /\ LiveSockets(u) # {} => delivered_to(u) # {}

====
